---- MODULE Spec2Model ----
(***************************************************************************)
(* Streaming translation core of gemini-cli-worker.                        *)
(*                                                                         *)
(*   Spec     the OpenAI streaming chat-completion pipeline:               *)
(*            OpenAIRoute.post("/chat/completions") (stream branch) ->     *)
(*            GeminiApiClient.streamContent -> generateReasoningOutput ->  *)
(*            performStreamRequest -> createOpenAIStreamTransformer.       *)
(*   SpecSSE  GeminiApiClient.parseSSEStream over character streams that   *)
(*            arrive in arbitrary reads.                                   *)
(*   SpecFrames the same parser over bodies made of whole frames.          *)
(*   SpecPart the per-part classification of performStreamRequest over a   *)
(*            richer alphabet of part texts.                               *)
(*   SpecCompletion the route from the arrival of a request to its         *)
(*            dispatch, and the non-streaming completion (getCompletion,   *)
(*            handleNonStreamingFallback).                                 *)
(*   SpecNative the native Gemini generate routes.                         *)
(*   SpecAuth AuthManager.initializeAuth over stored tokens and clocks.    *)
(*   SpecAuthRace the steps of initializeAuth and clearTokenCache of       *)
(*            concurrent requests on the shared KV cache.                  *)
(*   SpecConfig GenerationConfigValidator.createValidatedConfig.           *)
(*   SpecChunker the loop of generateReasoningOutput that cuts the         *)
(*            narrative into chunks.                                       *)
(*                                                                         *)
(* Texts are sequences of one-character strings.  In part texts the two    *)
(* legacy tag markers "<think>" and "</think>" are single tokens.          *)
(***************************************************************************)
EXTENDS Integers, Sequences, FiniteSets, TLC

VARIABLES
    \* ---- request configuration (env + request body) ----
    modelId,                  \* body.model, validated against geminiCliModels
    isFakeThinkingEnabled,    \* env.ENABLE_FAKE_THINKING === "true"
    streamThinkingAsContent,  \* env.STREAM_THINKING_AS_CONTENT === "true"
    includeReasoning,         \* env.ENABLE_REAL_THINKING === "true" (route)
    autoSwitchEnabled,        \* env.ENABLE_AUTO_MODEL_SWITCHING === "true"
    \* ---- control ----
    pc,                       \* position of the request's async flow
    \* ---- performStreamRequest arguments / locals ----
    requestModel,             \* streamRequest.model of the current attempt
    needsThinkingClose,
    isRetry,
    hasStartedThinking,
    hasClosedThinking,
    received,                 \* upstream events consumed from the 200 body
    partsSeen,                \* parts consumed from the 200 body
    events,                   \* the events consumed from the 200 body, in
                              \* order of arrival
    reader,                   \* the reader parseSSEStream holds on the body
    errorMessage,             \* message of the Error thrown by the pipeline
    \* ---- collaborators' call counters ----
    fetchCount,               \* streamGenerateContent requests issued
    statuses,                 \* their HTTP statuses, in order
    fetchModels,              \* the model each of them names, in order
    clearCount,               \* authManager.clearTokenCache() calls
    authCount,                \* authManager.initializeAuth() calls made by
                              \* performStreamRequest
    \* ---- outputs ----
    frags,                    \* StreamChunks yielded by streamContent
    chatID, creationTime, transformerModel, firstChunk,  \* transformer closure
    sse,                      \* frames enqueued by the transformer
    \* ---- the route and getCompletion (SpecCompletion) ----
    bodyStream,               \* body.stream === true
    completionModel,          \* modelId argument of getCompletion
    inFallback,               \* handleNonStreamingFallback is running
    content, usage,           \* locals of the collecting loop
    response,                 \* the JSON response of the route, once sent
    initAuthCount,            \* initializeAuth() calls of the route's auth
                              \* test and of streamContent
    \* ---- parseSSEStream (SpecSSE) ----
    bodyFrames,               \* SpecFrames: the frames the body is made of
    stream,                   \* the whole upstream body, as characters
    pos,                      \* characters delivered by reader.read() so far
    buffer, objectBuffer,
    yielded,                  \* events yielded so far
    sseDone,                  \* reader.read() returned done
    sawParseError,            \* some JSON.parse threw (and was caught)
    \* ---- per-part classification (SpecPart) ----
    partIn,                   \* the part and the flags it is classified under
    partOut,                  \* fragments and flags after classifying it
    \* ---- AuthManager (SpecAuth) ----
    kvToken,                  \* GEMINI_CLI_KV entry KV_TOKEN_KEY: <<>> or
                              \* <<[access_token, expiry_date]>>
    envCreds,                 \* env.GCP_SERVICE_ACCOUNT: <<>> when not set,
                              \* else <<[access_token, expiry_date]>>
    accessToken,              \* this.accessToken
    now,                      \* Date.now(), in milliseconds
    tokenBufferTime,          \* TOKEN_BUFFER_TIME of config.ts
    refreshCount,             \* POSTs to OAUTH_REFRESH_URL
    lastAuth,                 \* the last initializeAuth call: what it found
                              \* and how it ended
    \* ---- concurrent requests on the shared KV cache (SpecAuthRace) ----
    authPc,                   \* per request: where its auth flow stands
    rejectedToken,            \* per request: the token its 401 was answered
                              \* to, Null before
    pendingPut,               \* per request: the entry of a KV put that was
                              \* issued and has not completed
    \* ---- GenerationConfigValidator (SpecConfig) ----
    configIn,                 \* arguments of createValidatedConfig
    configOut,                \* the generation config it returned
    \* ---- the chunker of generateReasoningOutput (SpecChunker) ----
    fullReasoningText,        \* the narrative, as characters
    remainingText,
    chunks,
    chunkPc                   \* "loop" at the head of the while loop,
                              \* "done" after it

pipeVars == <<modelId, isFakeThinkingEnabled, streamThinkingAsContent,
              includeReasoning, autoSwitchEnabled, pc, requestModel,
              needsThinkingClose, isRetry, hasStartedThinking,
              hasClosedThinking, received, partsSeen, events, reader, errorMessage,
              fetchCount, statuses,
              fetchModels, clearCount, authCount, frags, chatID, creationTime,
              transformerModel, firstChunk, sse, bodyStream, completionModel,
              inFallback, content, usage, response, initAuthCount>>
sseVars == <<bodyFrames, stream, pos, buffer, objectBuffer, yielded, sseDone, sawParseError>>
partVars == <<partIn, partOut>>
raceVars == <<authPc, rejectedToken, pendingPut>>
authVars == <<kvToken, envCreds, accessToken, now, tokenBufferTime, refreshCount,
              lastAuth, raceVars>>
configVars == <<configIn, configOut>>
chunkVars == <<fullReasoningText, remainingText, chunks, chunkPc>>
vars == <<pipeVars, sseVars, partVars, authVars, configVars, chunkVars>>

----------------------------------------------------------------------------
(* Bounds *)

MaxEvents == 2      \* upstream events in one 200 response body
MaxParts == 2       \* parts in one 200 response body, over all its events
MaxLines == 3       \* newline-terminated lines in one upstream body
MaxRead == 7        \* characters one reader.read() delivers
MaxFrames == 3      \* frames in one upstream body made of frames
MaxTextLen == 4     \* tokens in the text of a classified part

----------------------------------------------------------------------------
(* Generic helpers *)

RECURSIVE FlattenSeq(_)
FlattenSeq(ss) == IF ss = <<>> THEN <<>> ELSE Head(ss) \o FlattenSeq(Tail(ss))

SeqsUpTo(S, n) == UNION {[1..k -> S] : k \in 0..n}

Count(s, P(_)) == Cardinality({i \in DOMAIN s : P(s[i])})

----------------------------------------------------------------------------
(* Texts: String.prototype.includes / match / replace / trim on token       *)
(* sequences.                                                               *)

OpenTag == "<think>"
CloseTag == "</think>"
Whitespace == {" ", "\n", "\r"}

\* text.includes(tok)
Includes(text, tok) == \E i \in DOMAIN text : text[i] = tok

\* Leftmost index of tok in text at or after from, 0 when there is none.
IndexFrom(text, tok, from) ==
    LET hits == {i \in from..Len(text) : text[i] = tok}
    IN IF hits = {} THEN 0 ELSE CHOOSE i \in hits : \A j \in hits : i <= j

\* text.match(/<think>(.*?)<\/think>/s): the leftmost "<think>" that has a
\* "</think>" after it, up to the first such "</think>" (non-greedy; the s
\* flag lets "." cross newlines).  [found, start, end, inner].
ThinkMatch(text) ==
    LET o == IndexFrom(text, OpenTag, 1)
        c == IF o = 0 THEN 0 ELSE IndexFrom(text, CloseTag, o + 1)
    IN IF o = 0 \/ c = 0
       THEN [found |-> FALSE, start |-> 0, end |-> 0, inner |-> <<>>]
       ELSE [found |-> TRUE, start |-> o, end |-> c,
             inner |-> SubSeq(text, o + 1, c - 1)]

\* Mutant: the replace removes the tag markers only and keeps the inner text.
StripThink_KeepInner(text) ==
    SelectSeq(text, LAMBDA tok : tok \notin {OpenTag, CloseTag})

\* text.replace(/<think>.*?<\/think>/gs, ""): every non-overlapping match,
\* scanning from the left, is removed.
RECURSIVE StripThink(_)
StripThink(text) ==
    LET m == ThinkMatch(text)
    IN IF ~m.found THEN text
       ELSE SubSeq(text, 1, m.start - 1)
            \o StripThink(SubSeq(text, m.end + 1, Len(text)))

\* text.trim()
RECURSIVE TrimStart(_)
TrimStart(text) ==
    IF text # <<>> /\ Head(text) \in Whitespace THEN TrimStart(Tail(text)) ELSE text

RECURSIVE TrimEnd(_)
TrimEnd(text) ==
    IF text # <<>> /\ text[Len(text)] \in Whitespace
    THEN TrimEnd(SubSeq(text, 1, Len(text) - 1)) ELSE text

\* Mutant: the text is left untrimmed.
Trim_Keep(text) == text

Trim(text) == TrimEnd(TrimStart(text))

\* JavaScript truthiness of a string
Truthy(text) == text # <<>>

----------------------------------------------------------------------------
(* StreamChunk: {type, data}.  origin is a ghost tag recording which        *)
(* statement yielded the chunk; no operator of the program reads it.        *)

Frag(type, data, origin) == [type |-> type, data |-> data, origin |-> origin]

OpenDelimiter == <<"<thinking>", "\n">>
CloseDelimiter == <<"\n", "</thinking>", "\n", "\n">>

OpenFrag(origin) == Frag("thinking_content", OpenDelimiter, origin)
CloseFrag(origin) == Frag("thinking_content", CloseDelimiter, origin)

----------------------------------------------------------------------------
(* performStreamRequest, body of the loop over candidate.content.parts      *)

\* if (!hasStartedThinking) (lines 478, 504)
ShouldOpen(started) == ~started

\* if (hasStartedThinking && !hasClosedThinking) (line 521)
ShouldCloseAfterTag(started, closed) == started /\ ~closed

\* Mutant: the closing delimiter is emitted without consulting
\* hasClosedThinking.
ShouldCloseBeforeText_IgnoreClosed(ntc, rtac, started, closed) ==
    ntc \/ (rtac /\ started)

\* if ((needsThinkingClose || (realThinkingAsContent && hasStartedThinking))
\*     && !hasClosedThinking) (line 550)
ShouldCloseBeforeText(ntc, rtac, started, closed) ==
    (ntc \/ (rtac /\ started)) /\ ~closed

\* Mutant: the reasoning text is sent on the content channel.
ReasoningFrag_AsContent(text) == Frag("thinking_content", text, "upstream")

\* yield { type: "real_thinking", data: ... } (lines 491-494, 533-536)
ReasoningFrag(text) == Frag("real_thinking", text, "upstream")

\* One part: [frags, started, closed] from the part and the flags before it.
ClassifyPart(part, ntc, rtac, started, closed) ==
    IF part.thought = TRUE /\ Truthy(part.text) THEN
        IF rtac
        THEN [frags |-> (IF ShouldOpen(started) THEN <<OpenFrag("upstream")>> ELSE <<>>)
                        \o <<Frag("thinking_content", part.text, "upstream")>>,
              started |-> TRUE, closed |-> closed]
        ELSE [frags |-> <<ReasoningFrag(part.text)>>,
              started |-> started, closed |-> closed]
    ELSE IF Truthy(part.text) /\ Includes(part.text, OpenTag) THEN
        LET thinkingMatch == ThinkMatch(part.text)
            nonThinkingContent == Trim(StripThink(part.text))
        IN IF rtac
           THEN LET started1 == started \/ thinkingMatch.found
                    closing == Truthy(nonThinkingContent)
                               /\ ShouldCloseAfterTag(started1, closed)
                IN [frags |->
                        (IF thinkingMatch.found
                         THEN (IF ShouldOpen(started) THEN <<OpenFrag("upstream")>>
                               ELSE <<>>)
                              \o <<Frag("thinking_content", thinkingMatch.inner,
                                        "upstream")>>
                         ELSE <<>>)
                        \o (IF closing THEN <<CloseFrag("upstream")>> ELSE <<>>)
                        \o (IF Truthy(nonThinkingContent)
                            THEN <<Frag("text", nonThinkingContent, "upstream")>>
                            ELSE <<>>),
                    started |-> started1,
                    closed |-> closed \/ closing]
           ELSE [frags |->
                        (IF thinkingMatch.found
                         THEN <<ReasoningFrag(thinkingMatch.inner)>>
                         ELSE <<>>)
                        \o (IF Truthy(nonThinkingContent)
                            THEN <<Frag("text", nonThinkingContent, "upstream")>>
                            ELSE <<>>),
                 started |-> started, closed |-> closed]
    ELSE IF Truthy(part.text) /\ ~part.thought /\ ~Includes(part.text, OpenTag) THEN
        LET closing == ShouldCloseBeforeText(ntc, rtac, started, closed)
        IN [frags |-> (IF closing THEN <<CloseFrag("upstream")>> ELSE <<>>)
                      \o <<Frag("text", part.text, "upstream")>>,
            started |-> started, closed |-> closed \/ closing]
    ELSE [frags |-> <<>>, started |-> started, closed |-> closed]

\* Mutant: the fragments of a part are put in front of those of the parts
\* before it.
RECURSIVE ClassifyParts_Prepend(_, _, _, _, _)
ClassifyParts_Prepend(parts, ntc, rtac, started, closed) ==
    IF parts = <<>> THEN [frags |-> <<>>, started |-> started, closed |-> closed]
    ELSE LET first == ClassifyPart(Head(parts), ntc, rtac, started, closed)
             rest == ClassifyParts_Prepend(Tail(parts), ntc, rtac, first.started,
                                           first.closed)
         IN [frags |-> rest.frags \o first.frags,
             started |-> rest.started, closed |-> rest.closed]

\* The parts of one event, in array order.
RECURSIVE ClassifyParts(_, _, _, _, _)
ClassifyParts(parts, ntc, rtac, started, closed) ==
    IF parts = <<>> THEN [frags |-> <<>>, started |-> started, closed |-> closed]
    ELSE LET first == ClassifyPart(Head(parts), ntc, rtac, started, closed)
             rest == ClassifyParts(Tail(parts), ntc, rtac, first.started, first.closed)
         IN [frags |-> first.frags \o rest.frags,
             started |-> rest.started, closed |-> rest.closed]

\* usageMetadata of an event -> the usage chunk.  usageMetadata = <<>> when
\* the event has none, else <<[promptTokenCount, candidatesTokenCount]>>.
UsageFrags(usageMetadata) ==
    IF usageMetadata = <<>> THEN <<>>
    ELSE <<Frag("usage", [inputTokens |-> usageMetadata[1].promptTokenCount,
                          outputTokens |-> usageMetadata[1].candidatesTokenCount],
                "upstream")>>

----------------------------------------------------------------------------
(* createOpenAIStreamTransformer                                            *)

Null == "null"
OPENAI_CHAT_COMPLETION_OBJECT == "chat.completion.chunk"

\* OpenAIChunk around a delta
OpenAIChunk(id, created, model, delta) ==
    [id |-> id, object |-> OPENAI_CHAT_COMPLETION_OBJECT, created |-> created,
     model |-> model, delta |-> delta, finish_reason |-> Null, usage |-> Null]

\* Mutant: the role is attached to every content delta.
ContentDelta_AlwaysRole(data, first) ==
    [role |-> "assistant", content |-> data,
     reasoning_content |-> Null, tool_calls |-> Null]

\* delta of a text or thinking_content chunk; consumes the firstChunk flag
ContentDelta(data, first) ==
    IF first
    THEN [role |-> "assistant", content |-> data,
          reasoning_content |-> Null, tool_calls |-> Null]
    ELSE [content |-> data, reasoning_content |-> Null, tool_calls |-> Null]

\* delta of a real_thinking or reasoning chunk
ReasoningDelta(data) ==
    [reasoning |-> data, reasoning_content |-> Null, tool_calls |-> Null]

\* Mutant: the flag is left as it was.
ConsumeFirst_Keep(first) == first

\* firstChunk = false (lines 69, 98)
ConsumeFirst(first) == FALSE

\* typeof chunk.data === "string": every type but usage and reasoning
\* carries a string.
IsStringData(chunk) == chunk.type \in {"text", "thinking_content", "real_thinking"}

\* isReasoningData(chunk.data)
isReasoningData(chunk) == chunk.type = "reasoning"

\* Mutant: a chunk no branch takes is forwarded as a frame of its own, with
\* an empty delta.
SkippedChunk_Forwarded(chunk, id, created, model) ==
    <<OpenAIChunk(id, created, model, ReasoningDelta(<<>>))>>

\* Lines 168-172: no branch takes the chunk (a usage chunk, or one without
\* data); nothing is enqueued.
SkippedChunk(chunk, id, created, model) == <<>>

\* transform(chunk, controller): [out, firstChunk] - the frames enqueued
\* for one StreamChunk and the flag afterwards.
Transform(chunk, id, created, model, first) ==
    IF chunk.type = "text" /\ IsStringData(chunk) /\ Truthy(chunk.data) THEN
        [out |-> <<OpenAIChunk(id, created, model, ContentDelta(chunk.data, first))>>,
         firstChunk |-> ConsumeFirst(first)]
    ELSE IF chunk.type = "thinking_content" /\ IsStringData(chunk)
            /\ Truthy(chunk.data) THEN
        [out |-> <<OpenAIChunk(id, created, model, ContentDelta(chunk.data, first))>>,
         firstChunk |-> ConsumeFirst(first)]
    ELSE IF chunk.type = "real_thinking" /\ IsStringData(chunk)
            /\ Truthy(chunk.data) THEN
        [out |-> <<OpenAIChunk(id, created, model, ReasoningDelta(chunk.data))>>,
         firstChunk |-> first]
    ELSE IF chunk.type = "reasoning" /\ isReasoningData(chunk) THEN
        [out |-> <<OpenAIChunk(id, created, model,
                               ReasoningDelta(chunk.data.reasoning))>>,
         firstChunk |-> first]
    ELSE [out |-> SkippedChunk(chunk, id, created, model), firstChunk |-> first]

\* writer.write(chunk) for each chunk of a sequence, in order
RECURSIVE TransformAll(_, _, _, _, _)
TransformAll(cs, id, created, model, first) ==
    IF cs = <<>> THEN [out |-> <<>>, firstChunk |-> first]
    ELSE LET h == Transform(Head(cs), id, created, model, first)
             t == TransformAll(Tail(cs), id, created, model, h.firstChunk)
         IN [out |-> h.out \o t.out, firstChunk |-> t.firstChunk]

\* Mutant: the finish chunk gets an id and a timestamp of its own.
FinalChunk_FreshId(id, created, model) ==
    [id |-> "chatcmpl-flush", object |-> OPENAI_CHAT_COMPLETION_OBJECT,
     created |-> created + 1, model |-> model, delta |-> <<>>,
     finish_reason |-> "stop"]

\* flush(controller): the finish chunk, then the sentinel
FinalChunk(id, created, model) ==
    [id |-> id, object |-> OPENAI_CHAT_COMPLETION_OBJECT, created |-> created,
     model |-> model, delta |-> <<>>, finish_reason |-> "stop"]

DoneSentinel == [sentinel |-> "[DONE]"]

\* Mutant: the sentinel is enqueued before the finish chunk.
Flush_SentinelFirst(id, created, model) ==
    <<DoneSentinel, FinalChunk(id, created, model)>>

Flush(id, created, model) == <<FinalChunk(id, created, model), DoneSentinel>>

----------------------------------------------------------------------------
(* AutoModelSwitchingHelper and the tables it reads                         *)

GeminiPro == "gemini-2.5-pro"
GeminiFlash == "gemini-2.5-flash"

\* models.ts: both models are thinking models
geminiCliModels == {GeminiPro, GeminiFlash}
IsThinkingModel(m) == m \in {GeminiPro, GeminiFlash}

NoModel == "none"
\* AUTO_SWITCH_MODEL_MAP[originalModel] || null
getFallbackModel(originalModel) ==
    IF originalModel = GeminiPro THEN GeminiFlash ELSE NoModel

RATE_LIMIT_STATUS_CODES == {429, 503}
isRateLimitStatus(status) == status \in RATE_LIMIT_STATUS_CODES

createSwitchNotification(originalModel, fallbackModel) ==
    <<"[Auto-switched from ", originalModel, " to ", fallbackModel,
      " due to rate limiting]", "\n", "\n">>

----------------------------------------------------------------------------
(* Inputs of the pipeline                                                   *)

\* HTTP statuses the upstream answers with (response.ok is status 200)
Statuses == {200, 401, 429, 503, 500}

\* Parts of candidate.content.parts
ThoughtPart == [thought |-> TRUE, text |-> <<"A">>]
TextPart == [thought |-> FALSE, text |-> <<"B">>]
TaggedPart == [thought |-> FALSE, text |-> <<OpenTag, "A", CloseTag, "B">>]
Parts == {ThoughtPart, TextPart, TaggedPart}

\* response.usageMetadata: absent, or one snapshot
Usages == {<<>>, <<[promptTokenCount |-> 1, candidatesTokenCount |-> 2]>>}

\* A second snapshot, for the path that reads the counts
LaterUsage == [promptTokenCount |-> 3, candidatesTokenCount |-> 4]

\* The snapshots an event may hold.  The streaming path never reads the
\* counts (the transformer drops usage chunks), so one snapshot value
\* stands for all there; the collecting loop gets two different ones.
UsagesOf(collecting) ==
    IF collecting THEN Usages \cup {<<LaterUsage>>} ELSE Usages

\* Upstream events that still fit the part budget
Events(budget, usages) ==
    [parts : SeqsUpTo(Parts, budget), usage : usages]

\* REASONING_MESSAGES with {requestPreview} substituted, one token each
ReasoningTexts ==
    <<<<"Analyzing the request">>, <<"Let me think">>, <<"I need to consider">>,
      <<"Based on my understanding">>, <<"Let me formulate">>>>

\* Mutant: the generator stops after its first chunk.
generateReasoningOutput_FirstOnly(streamAsContent) ==
    IF streamAsContent
    THEN <<OpenFrag("synthetic")>>
    ELSE <<Frag("reasoning", [reasoning |-> ReasoningTexts[1]], "synthetic")>>

\* generateReasoningOutput(modelId, messages, streamAsContent): the chunks
\* it yields.  As content: the opening delimiter, then the narrative in
\* chunks (here one chunk per message; the loop that cuts the narrative by
\* characters is SpecChunker).  Otherwise one reasoning chunk per message.
generateReasoningOutput(streamAsContent) ==
    IF streamAsContent
    THEN <<OpenFrag("synthetic")>>
         \o [i \in 1..Len(ReasoningTexts) |->
                Frag("thinking_content", ReasoningTexts[i], "synthetic")]
    ELSE [i \in 1..Len(ReasoningTexts) |->
                Frag("reasoning", [reasoning |-> ReasoningTexts[i]], "synthetic")]

----------------------------------------------------------------------------
(* The streaming chat-completion pipeline                                   *)

\* Mutant: thinking-as-content chunks are collected as well.
IsCollectedText_WithThinking(chunk) == chunk.type \in {"text", "thinking_content"}

\* chunk.type === "text" && typeof chunk.data === "string"
\* (gemini-client.ts 599, auto-model-switching.ts 100)
IsCollectedText(chunk) == chunk.type = "text"

\* Mutant: the first snapshot is kept and later ones are skipped.
Collect_KeepFirstUsage(chunk, acc, use) ==
    IF IsCollectedText(chunk) THEN [content |-> acc \o chunk.data, usage |-> use]
    ELSE IF chunk.type = "usage" /\ use = <<>>
    THEN [content |-> acc, usage |-> <<chunk.data>>]
    ELSE [content |-> acc, usage |-> use]

\* One iteration of the collecting loop: [content, usage]
Collect(chunk, acc, use) ==
    IF IsCollectedText(chunk) THEN [content |-> acc \o chunk.data, usage |-> use]
    ELSE IF chunk.type = "usage" THEN [content |-> acc, usage |-> <<chunk.data>>]
    ELSE [content |-> acc, usage |-> use]

RECURSIVE CollectAll(_, _, _)
CollectAll(cs, acc, use) ==
    IF cs = <<>> THEN [content |-> acc, usage |-> use]
    ELSE LET h == Collect(Head(cs), acc, use)
         IN CollectAll(Tail(cs), h.content, h.usage)

\* for await (const chunk of geminiStream) await writer.write(chunk):
\* every yielded chunk goes through the transformer as it is produced.
\* for await (const chunk of this.streamContent(...)) of getCompletion and
\* handleNonStreamingFallback: text is appended to content, a usage chunk
\* replaces usage, every other chunk is skipped.
Emit(cs) ==
    /\ frags' = frags \o cs
    /\ IF bodyStream
       THEN LET t == TransformAll(cs, chatID, creationTime, transformerModel,
                                  firstChunk)
            IN /\ sse' = sse \o t.out
               /\ firstChunk' = t.firstChunk
               /\ UNCHANGED <<content, usage>>
       ELSE LET c == CollectAll(cs, content, usage)
            IN /\ content' = c.content
               /\ usage' = c.usage
               /\ UNCHANGED <<sse, firstChunk>>

\* Mutant: a section left open is closed by force before the flush.
Close_ForcedClosing ==
    sse' = sse
           \o (IF \E i \in DOMAIN frags :
                     frags[i].type = "thinking_content" /\ frags[i].data = OpenDelimiter
               THEN Transform(CloseFrag("upstream"), chatID, creationTime,
                              transformerModel, firstChunk).out
               ELSE <<>>)
           \o Flush(chatID, creationTime, transformerModel)

\* writer.close(): the transformer's flush runs
Close ==
    sse' = sse \o Flush(chatID, creationTime, transformerModel)

cfgVars == <<modelId, isFakeThinkingEnabled, streamThinkingAsContent,
             includeReasoning, autoSwitchEnabled>>
idVars == <<chatID, creationTime, transformerModel>>
reqVars == <<requestModel, needsThinkingClose, isRetry>>
flagVars == <<hasStartedThinking, hasClosedThinking>>
countVars == <<fetchCount, statuses, fetchModels, clearCount, authCount>>
outVars == <<frags, firstChunk, sse, content, usage>>
routeVars == <<bodyStream, completionModel, inFallback, response>>

ChatIDs == {"chatcmpl-a", "chatcmpl-b"}
Times == {1700000000}

InitIdleSSE ==
    /\ bodyFrames = <<>>
    /\ stream = <<>> /\ pos = 0 /\ buffer = <<>> /\ objectBuffer = <<>>
    /\ yielded = <<>> /\ sseDone = FALSE /\ sawParseError = FALSE

InitIdlePart == partIn = <<>> /\ partOut = <<>>

InitIdleAuth ==
    /\ kvToken = <<>> /\ envCreds = <<>> /\ accessToken = "null" /\ now = 0
    /\ tokenBufferTime = 0 /\ refreshCount = 0 /\ lastAuth = <<>>
    /\ authPc = <<>> /\ rejectedToken = <<>> /\ pendingPut = <<>>

InitIdleConfig == configIn = <<>> /\ configOut = <<>>

InitIdleChunker ==
    /\ fullReasoningText = <<>> /\ remainingText = <<>> /\ chunks = <<>>
    /\ chunkPc = "idle"

InitIdlePipe ==
    /\ modelId = NoModel /\ isFakeThinkingEnabled = FALSE
    /\ streamThinkingAsContent = FALSE /\ includeReasoning = FALSE
    /\ autoSwitchEnabled = FALSE /\ pc = "idle" /\ requestModel = NoModel
    /\ needsThinkingClose = FALSE /\ isRetry = FALSE
    /\ hasStartedThinking = FALSE /\ hasClosedThinking = FALSE
    /\ received = 0 /\ partsSeen = 0 /\ events = <<>> /\ reader = "none"
    /\ errorMessage = <<>>
    /\ fetchCount = 0 /\ statuses = <<>> /\ fetchModels = <<>>
    /\ clearCount = 0 /\ authCount = 0
    /\ frags = <<>> /\ chatID = "" /\ creationTime = 0
    /\ transformerModel = NoModel /\ firstChunk = TRUE /\ sse = <<>>
    /\ bodyStream = FALSE /\ completionModel = NoModel /\ inFallback = FALSE
    /\ content = <<>> /\ usage = <<>> /\ response = <<>> /\ initAuthCount = 0

\* A validated, authenticated request with stream: true has reached line 156
\* of the route.
Init ==
    /\ modelId \in geminiCliModels
    /\ isFakeThinkingEnabled \in BOOLEAN
    /\ streamThinkingAsContent \in BOOLEAN
    /\ includeReasoning \in BOOLEAN
    /\ autoSwitchEnabled \in BOOLEAN
    /\ pc = "route"
    /\ requestModel = NoModel
    /\ needsThinkingClose = FALSE /\ isRetry = FALSE
    /\ hasStartedThinking = FALSE /\ hasClosedThinking = FALSE
    /\ received = 0 /\ partsSeen = 0 /\ events = <<>> /\ reader = "none"
    /\ errorMessage = <<>>
    /\ fetchCount = 0 /\ statuses = <<>> /\ fetchModels = <<>>
    /\ clearCount = 0 /\ authCount = 0
    /\ frags = <<>> /\ chatID = "" /\ creationTime = 0
    /\ transformerModel = NoModel /\ firstChunk = TRUE /\ sse = <<>>
    /\ bodyStream = TRUE /\ completionModel = NoModel /\ inFallback = FALSE
    /\ content = <<>> /\ usage = <<>> /\ response = <<>> /\ initAuthCount = 1
    /\ InitIdleSSE /\ InitIdlePart /\ InitIdleAuth /\ InitIdleConfig
    /\ InitIdleChunker

\* openai.ts 156-167: the transformer is created for the requested model and
\* streamContent is started.
StartStream ==
    /\ pc = "route"
    /\ chatID' \in ChatIDs
    /\ creationTime' \in Times
    /\ transformerModel' = modelId
    /\ firstChunk' = TRUE
    /\ pc' = "streamContent"
    /\ UNCHANGED <<cfgVars, reqVars, flagVars, reader, received, partsSeen, events, errorMessage,
                   countVars, frags, sse, content, usage, routeVars,
                   initAuthCount, sseVars, partVars, authVars,
                   configVars, chunkVars>>

\* streamContent 247-272: initializeAuth and discoverProjectId, either of
\* which may throw.
StreamContentBegin ==
    /\ pc = "streamContent"
    /\ \E ok \in BOOLEAN :
          IF ok
          THEN /\ pc' = "thinking"
               /\ errorMessage' = errorMessage
          ELSE /\ pc' = "failed"
               /\ errorMessage' = <<"Authentication failed">>
    /\ initAuthCount' = initAuthCount + 1
    /\ UNCHANGED <<cfgVars, idVars, reqVars, flagVars, reader, received, partsSeen, events,
                   countVars, outVars, routeVars, sseVars, partVars, authVars,
                   configVars, chunkVars>>

\* Mutant: the synthetic phase runs whether or not real thinking is requested.
ShouldFakeThink_IgnoreReal(model, fake, include) == IsThinkingModel(model) /\ fake

\* if (isThinkingModel && isFakeThinkingEnabled && !includeReasoning) (line 276)
ShouldFakeThink(model, fake, include) ==
    IsThinkingModel(model) /\ fake /\ ~include

\* streamContent 274-297: the synthetic phase, then the call of
\* performStreamRequest(streamRequest, needsThinkingClose, false,
\* includeReasoning && streamThinkingAsContent, modelId).
SyntheticPhase ==
    /\ pc = "thinking"
    /\ IF ShouldFakeThink(modelId, isFakeThinkingEnabled, includeReasoning)
       THEN /\ Emit(generateReasoningOutput(streamThinkingAsContent))
            /\ needsThinkingClose' = streamThinkingAsContent
       ELSE /\ UNCHANGED outVars
            /\ needsThinkingClose' = FALSE
    /\ requestModel' = modelId
    /\ isRetry' = FALSE
    /\ pc' = "request"
    /\ UNCHANGED <<cfgVars, idVars, flagVars, reader, received, partsSeen, events, errorMessage,
                   countVars, routeVars, initAuthCount, sseVars, partVars, authVars,
                   configVars, chunkVars>>

\* Mutant: the notification is yielded again by the replay's prologue.
SwitchNotificationChunks_Twice(orig, fallbackModel) ==
    <<Frag("text", createSwitchNotification(orig, fallbackModel), "notification"),
      Frag("text", createSwitchNotification(orig, fallbackModel), "notification")>>

\* lines 439-442: the chunk(s) yielded before the fallback replay
SwitchNotificationChunks(orig, fallbackModel) ==
    <<Frag("text", createSwitchNotification(orig, fallbackModel), "notification")>>

\* Mutant: the replay is made without clearing the token cache.
ClearAndReauth_NoClear(clears, auths) == [clears |-> clears, auths |-> auths + 1]

\* lines 418-419: clearTokenCache() then initializeAuth(); the call counts
\* after them
ClearAndReauth(clears, auths) == [clears |-> clears + 1, auths |-> auths + 1]

\* Mutant: a 401 is replayed whether or not the request is a replay.
ShouldReplayAuth_Always(status, retry) == status = 401

\* if (response.status === 401 && !isRetry) (line 416)
ShouldReplayAuth(status, retry) == status = 401 /\ ~retry

\* Mutant: the error does not say which status was received.
StreamRequestFailed_NoStatus(status) == <<"Stream request failed">>

\* new Error(`Stream request failed: ${response.status}`) (line 457)
StreamRequestFailed(status) == <<"Stream request failed: ", ToString(status)>>

realThinkingAsContent == includeReasoning /\ streamThinkingAsContent
originalModel == modelId

\* performStreamRequest 406-462: one fetch and the handling of its status.
PerformStreamRequest ==
    /\ pc = "request"
    /\ \E status \in Statuses, authOk \in BOOLEAN, hasBody \in BOOLEAN :
        /\ fetchCount' = fetchCount + 1
        /\ statuses' = Append(statuses, status)
        /\ fetchModels' = Append(fetchModels, requestModel)
        /\ IF status # 200 THEN
              IF ShouldReplayAuth(status, isRetry) THEN
                  /\ clearCount' = ClearAndReauth(clearCount, authCount).clears
                  /\ authCount' = ClearAndReauth(clearCount, authCount).auths
                  /\ IF authOk
                     THEN /\ isRetry' = TRUE
                          /\ pc' = "request"
                          /\ errorMessage' = errorMessage
                     ELSE /\ isRetry' = isRetry
                          /\ pc' = "failed"
                          /\ errorMessage' = <<"Authentication failed">>
                  /\ UNCHANGED <<requestModel, outVars>>
              ELSE IF /\ isRateLimitStatus(status) /\ ~isRetry
                      /\ originalModel # NoModel
                      /\ getFallbackModel(originalModel) # NoModel
                      /\ autoSwitchEnabled THEN
                  /\ requestModel' = getFallbackModel(originalModel)
                  /\ Emit(SwitchNotificationChunks(originalModel,
                                                    getFallbackModel(originalModel)))
                  /\ isRetry' = TRUE
                  /\ pc' = "request"
                  /\ UNCHANGED <<clearCount, authCount, errorMessage>>
              ELSE
                  /\ pc' = "failed"
                  /\ errorMessage' = StreamRequestFailed(status)
                  /\ UNCHANGED <<requestModel, isRetry, clearCount, authCount,
                                 outVars>>
           ELSE
              /\ IF hasBody
                 THEN /\ pc' = "streaming"
                      /\ errorMessage' = errorMessage
                 ELSE /\ pc' = "failed"
                      /\ errorMessage' = <<"Response has no body">>
              /\ UNCHANGED <<requestModel, isRetry, clearCount, authCount, outVars>>
        /\ reader' = IF status = 200 /\ hasBody THEN "locked" ELSE reader
    /\ hasStartedThinking' = FALSE
    /\ hasClosedThinking' = FALSE
    /\ UNCHANGED <<cfgVars, idVars, needsThinkingClose, received, partsSeen, events,
                   routeVars, initAuthCount, sseVars, partVars, authVars,
                   configVars, chunkVars>>

\* performStreamRequest 467-575: one iteration of the loop over the parsed
\* events: the parts in order, then the usage snapshot.
HandleEvent ==
    /\ pc = "streaming"
    /\ received < MaxEvents
    /\ \E jsonData \in Events(MaxParts - partsSeen, UsagesOf(~bodyStream)) :
          LET c == ClassifyParts(jsonData.parts, needsThinkingClose,
                                 realThinkingAsContent, hasStartedThinking,
                                 hasClosedThinking)
          IN /\ Emit(c.frags \o UsageFrags(jsonData.usage))
             /\ hasStartedThinking' = c.started
             /\ hasClosedThinking' = c.closed
             /\ partsSeen' = partsSeen + Len(jsonData.parts)
             /\ events' = Append(events, jsonData)
    /\ received' = received + 1
    /\ UNCHANGED <<cfgVars, idVars, reqVars, pc, reader, errorMessage, countVars,
                   routeVars, initAuthCount, sseVars, partVars, authVars,
                   configVars, chunkVars>>

\* The upstream body ends: the generators return, the route's loop ends and
\* the writer is closed (openai.ts 172-173).
StreamCompleted ==
    /\ pc = "streaming"
    /\ Close
    /\ pc' = "closed"
    /\ reader' = "done"
    /\ UNCHANGED <<cfgVars, idVars, reqVars, flagVars, received, partsSeen, events,
                   errorMessage, countVars, frags, firstChunk, content, usage,
                   routeVars, initAuthCount, sseVars, partVars, authVars,
                   configVars, chunkVars>>

\* reader.read() rejects while the body is being read.
UpstreamReadError ==
    /\ pc = "streaming"
    /\ pc' = "failed"
    /\ errorMessage' = <<"network error">>
    /\ reader' = "errored"
    /\ UNCHANGED <<cfgVars, idVars, reqVars, flagVars, received, partsSeen, events,
                   countVars, outVars, routeVars, initAuthCount, sseVars,
                   partVars, authVars, configVars, chunkVars>>

\* Mutant: the message is written without the "Error: " prefix.
ErrorChunk_Bare(message) == Frag("text", message, "error")

\* openai.ts 178-181: {type: "text", data: `Error: ${errorMessage}`}
ErrorChunk(message) == Frag("text", <<"Error: ">> \o message, "error")

\* openai.ts 174-183: the catch block writes the error text and closes.
StreamError ==
    /\ pc = "failed"
    /\ LET chunk == ErrorChunk(errorMessage)
           t == Transform(chunk, chatID, creationTime, transformerModel, firstChunk)
       IN /\ frags' = Append(frags, chunk)
          /\ firstChunk' = t.firstChunk
          /\ sse' = sse \o t.out \o Flush(chatID, creationTime, transformerModel)
    /\ pc' = "closed"
    /\ UNCHANGED <<cfgVars, idVars, reqVars, flagVars, reader, received, partsSeen, events,
                   errorMessage, countVars, content, usage, routeVars,
                   initAuthCount, sseVars, partVars, authVars,
                   configVars, chunkVars>>

\* openai.ts 169-183: the caller has disconnected and the write of the next
\* chunk read from the body rejects.  The for-await loop is left by the
\* exception, which returns the generators (no statement of parseSSEStream
\* runs after its yield: it has no finally block, and nothing cancels the
\* reader or releases its lock); the write in the catch block rejects as
\* well, so the writer is not closed.  The chunk that could not be written
\* is not recorded.
DownstreamWriteFails ==
    /\ pc = "streaming"
    /\ pc' = "aborted"
    /\ UNCHANGED <<cfgVars, idVars, reqVars, flagVars, reader, received, partsSeen,
                   events, errorMessage, countVars, outVars, routeVars,
                   initAuthCount, sseVars, partVars, authVars, configVars, chunkVars>>

Next ==
    \/ StartStream
    \/ StreamContentBegin
    \/ SyntheticPhase
    \/ PerformStreamRequest
    \/ HandleEvent
    \/ StreamCompleted
    \/ UpstreamReadError
    \/ StreamError
    \/ DownstreamWriteFails

Spec == Init /\ [][Next]_vars

----------------------------------------------------------------------------
(* The route up to its dispatch, and the non-streaming completion           *)

UnknownModel == "gpt-4"
BodyModels == geminiCliModels \cup {UnknownModel}

\* models.ts: supportsImages is true for both models
supportsImages(m) == m \in {GeminiPro, GeminiFlash}

\* Mutant: the model is not looked up in the table.
ValidationError_AnyModel(model, messagesEmpty, hasImages) ==
    IF messagesEmpty THEN <<"messages is a required field">> ELSE <<>>

\* openai.ts 91-120: the error of the first validation that fails, <<>> when
\* the request is valid
ValidationError(model, messagesEmpty, hasImages) ==
    IF messagesEmpty THEN <<"messages is a required field">>
    ELSE IF model \notin geminiCliModels
         THEN <<"Model '", model, "' not found. Available models: ">>
    ELSE IF hasImages /\ ~supportsImages(model)
         THEN <<"Model '", model, "' does not support image inputs.">>
    ELSE <<>>

\* c.json({error}, status)
ErrorResponse(status, error) == [status |-> status, error |-> error]

\* openai.ts 221-228: response.usage, set only if completion.usage is
\* defined
ResponseUsage(completionUsage) ==
    IF completionUsage = <<>> THEN <<>>
    ELSE <<[prompt_tokens |-> completionUsage[1].inputTokens,
            completion_tokens |-> completionUsage[1].outputTokens,
            total_tokens |-> completionUsage[1].inputTokens
                             + completionUsage[1].outputTokens]>>

\* openai.ts 204-231: the chat.completion object
CompletionResponse(model, completion) ==
    [status |-> 200, object |-> "chat.completion", model |-> model,
     content |-> completion.content, usage |-> ResponseUsage(completion.usage)]

\* isRateLimitError(error)
isRateLimitError(message) ==
    /\ Len(message) = 2
    /\ message[1] = "Stream request failed: "
    /\ message[2] \in {"429", "503"}

cfgEnv == <<isFakeThinkingEnabled, streamThinkingAsContent, includeReasoning,
            autoSwitchEnabled>>

InitCompletion ==
    /\ modelId = NoModel
    /\ isFakeThinkingEnabled \in BOOLEAN
    /\ streamThinkingAsContent \in BOOLEAN
    /\ includeReasoning \in BOOLEAN
    /\ autoSwitchEnabled \in BOOLEAN
    /\ pc = "receive"
    /\ requestModel = NoModel
    /\ needsThinkingClose = FALSE /\ isRetry = FALSE
    /\ hasStartedThinking = FALSE /\ hasClosedThinking = FALSE
    /\ received = 0 /\ partsSeen = 0 /\ events = <<>> /\ reader = "none"
    /\ errorMessage = <<>>
    /\ fetchCount = 0 /\ statuses = <<>> /\ fetchModels = <<>>
    /\ clearCount = 0 /\ authCount = 0
    /\ frags = <<>> /\ chatID = "" /\ creationTime = 0
    /\ transformerModel = NoModel /\ firstChunk = TRUE /\ sse = <<>>
    /\ bodyStream = FALSE /\ completionModel = NoModel /\ inFallback = FALSE
    /\ content = <<>> /\ usage = <<>> /\ response = <<>> /\ initAuthCount = 0
    /\ InitIdleSSE /\ InitIdlePart /\ InitIdleAuth /\ InitIdleConfig
    /\ InitIdleChunker

\* openai.ts 46-120: the body is read and validated; body.model is given.
ReceiveRequest ==
    /\ pc = "receive"
    /\ \E model \in BodyModels, messagesEmpty \in BOOLEAN, hasImages \in BOOLEAN,
          stream_ \in BOOLEAN :
          /\ hasImages => ~messagesEmpty
          /\ modelId' = model
          /\ bodyStream' = stream_
          /\ LET error == ValidationError(model, messagesEmpty, hasImages)
             IN IF error # <<>>
                THEN /\ response' = <<ErrorResponse(400, error)>>
                     /\ pc' = "responded"
                ELSE /\ response' = response
                     /\ pc' = "authTest"
    /\ UNCHANGED <<cfgEnv, idVars, reqVars, flagVars, reader, received, partsSeen, events,
                   errorMessage, countVars, outVars, completionModel, inFallback,
                   initAuthCount, sseVars, partVars, authVars,
                   configVars, chunkVars>>

\* openai.ts 146-154 and the dispatch on stream: a failed auth test is
\* answered 401; otherwise the stream branch is entered (pc "route", where
\* Spec starts) or getCompletion calls streamContent.
RouteAuthTest ==
    /\ pc = "authTest"
    /\ initAuthCount' = initAuthCount + 1
    /\ \E ok \in BOOLEAN :
          IF ~ok
          THEN /\ response' = <<ErrorResponse(401, <<"Authentication failed: ",
                                                      "token refresh failed">>)>>
               /\ pc' = "responded"
               /\ UNCHANGED completionModel
          ELSE /\ response' = response
               /\ IF bodyStream
                  THEN pc' = "route" /\ UNCHANGED completionModel
                  ELSE pc' = "streamContent" /\ completionModel' = modelId
    /\ UNCHANGED <<cfgVars, idVars, reqVars, flagVars, reader, received, partsSeen, events,
                   errorMessage, countVars, outVars, bodyStream, inFallback,
                   sseVars, partVars, authVars,
                   configVars, chunkVars>>

\* The upstream body ends: streamContent returns, the collecting loop ends
\* with {content, usage} and the route answers 200 (openai.ts 204-231).
CompletionCompleted ==
    /\ pc = "streaming"
    /\ response' = <<CompletionResponse(completionModel,
                                        [content |-> content, usage |-> usage])>>
    /\ pc' = "responded"
    /\ reader' = "done"
    /\ UNCHANGED <<cfgVars, idVars, reqVars, flagVars, received, partsSeen, events,
                   errorMessage, countVars, outVars, bodyStream, completionModel,
                   inFallback, initAuthCount, sseVars, partVars, authVars,
                   configVars, chunkVars>>

\* getCompletion 608-625: a rate-limit error caught by getCompletion starts
\* handleNonStreamingFallback when a fallback is mapped and enabled
\* (auto-model-switching.ts 85-99: content starts with the notification and
\* streamContent runs again on the fallback model).  Any other error, and
\* any error thrown by handleNonStreamingFallback itself, reaches the
\* route's catch (openai.ts 232-236).
CompletionError ==
    /\ pc = "failed"
    /\ IF /\ isRateLimitError(errorMessage) /\ ~inFallback
          /\ getFallbackModel(completionModel) # NoModel /\ autoSwitchEnabled
       THEN /\ content' = createSwitchNotification(
                              completionModel, getFallbackModel(completionModel))
            /\ usage' = <<>>
            /\ modelId' = getFallbackModel(completionModel)
            /\ inFallback' = TRUE
            /\ frags' = <<>>
            /\ errorMessage' = <<>>
            /\ received' = 0 /\ partsSeen' = 0 /\ events' = <<>>
            /\ pc' = "streamContent"
            /\ UNCHANGED response
       ELSE /\ response' = <<ErrorResponse(500, errorMessage)>>
            /\ pc' = "responded"
            /\ UNCHANGED <<content, usage, modelId, inFallback, frags,
                           errorMessage, received, partsSeen, events>>
    /\ UNCHANGED <<cfgEnv, idVars, reqVars, flagVars, reader, countVars, firstChunk, sse,
                   bodyStream, completionModel, initAuthCount, sseVars, partVars, authVars,
                   configVars, chunkVars>>

NextCompletion ==
    \/ ReceiveRequest
    \/ RouteAuthTest
    \/ StreamContentBegin
    \/ SyntheticPhase
    \/ PerformStreamRequest
    \/ HandleEvent
    \/ UpstreamReadError
    \/ CompletionCompleted
    \/ CompletionError

SpecCompletion == InitCompletion /\ [][NextCompletion]_vars

----------------------------------------------------------------------------
(* parseSSEStream                                                           *)

\* JSON.parse on the subset of JSON made of "1"-digit numbers and flat arrays
\* of them, with JSON whitespace between tokens:
\*   [ok |-> FALSE]  a SyntaxError is thrown
\*   [ok |-> TRUE, value |-> [kind |-> "number" | "array", items |-> <<n, ...>>]]
JsonWhitespace == {" ", "\n", "\r", "\t"}

RECURSIVE JsonScan(_, _, _, _, _)
JsonScan(text, i, st, items, cur) ==
    IF i > Len(text) THEN
        IF st = "end" THEN [ok |-> TRUE, value |-> [kind |-> "array", items |-> items]]
        ELSE IF st \in {"topnum", "topnumEnd"}
             THEN [ok |-> TRUE, value |-> [kind |-> "number", items |-> <<cur>>]]
             ELSE [ok |-> FALSE]
    ELSE LET c == text[i] IN
        IF c \in JsonWhitespace THEN
            IF st = "num" THEN JsonScan(text, i + 1, "afterVal", Append(items, cur), 0)
            ELSE IF st = "topnum" THEN JsonScan(text, i + 1, "topnumEnd", items, cur)
            ELSE JsonScan(text, i + 1, st, items, cur)
        ELSE IF st = "start" /\ c = "[" THEN JsonScan(text, i + 1, "first", items, cur)
        ELSE IF st = "start" /\ c = "1" THEN JsonScan(text, i + 1, "topnum", items, 1)
        ELSE IF st = "topnum" /\ c = "1"
             THEN JsonScan(text, i + 1, "topnum", items, cur * 10 + 1)
        ELSE IF st \in {"first", "needVal"} /\ c = "1"
             THEN JsonScan(text, i + 1, "num", items, 1)
        ELSE IF st = "first" /\ c = "]" THEN JsonScan(text, i + 1, "end", items, cur)
        ELSE IF st = "num" /\ c = "1"
             THEN JsonScan(text, i + 1, "num", items, cur * 10 + 1)
        ELSE IF st = "num" /\ c = ","
             THEN JsonScan(text, i + 1, "needVal", Append(items, cur), 0)
        ELSE IF st = "num" /\ c = "]"
             THEN JsonScan(text, i + 1, "end", Append(items, cur), 0)
        ELSE IF st = "afterVal" /\ c = ","
             THEN JsonScan(text, i + 1, "needVal", items, cur)
        ELSE IF st = "afterVal" /\ c = "]" THEN JsonScan(text, i + 1, "end", items, cur)
        ELSE [ok |-> FALSE]

JsonParse(text) == JsonScan(text, 1, "start", <<>>, 0)

\* text.split("\n"): the segments between newlines, at least one
RECURSIVE Split(_)
Split(text) ==
    LET n == IndexFrom(text, "\n", 1)
    IN IF n = 0 THEN <<text>>
       ELSE <<SubSeq(text, 1, n - 1)>> \o Split(SubSeq(text, n + 1, Len(text)))

\* line.trim() === ""
IsBlank(line) == \A i \in DOMAIN line : line[i] \in Whitespace \cup {"\t"}

DataPrefix == <<"d", "a", "t", "a", ":", " ">>

\* line.startsWith("data: ")
StartsWithData(line) ==
    Len(line) >= Len(DataPrefix) /\ SubSeq(line, 1, Len(DataPrefix)) = DataPrefix

\* line.substring(6)
Payload(line) == SubSeq(line, Len(DataPrefix) + 1, Len(line))

\* if (objectBuffer) { try { yield JSON.parse(objectBuffer) } catch {...} }
\* [yielded, err] after the attempt
ParseAndYield(ob, out, err) ==
    IF ~Truthy(ob) THEN [yielded |-> out, err |-> err]
    ELSE LET r == JsonParse(ob)
         IN IF r.ok THEN [yielded |-> Append(out, r.value), err |-> err]
            ELSE [yielded |-> out, err |-> TRUE]

\* Mutant: the buffer is reset inside the try block, after a successful
\* parse only.
ResetObjectBuffer_OnSuccess(ob, parsed) == IF parsed THEN <<>> ELSE ob

\* objectBuffer after the attempt on a blank line (line 143), whether or not
\* the parse succeeded
ResetObjectBuffer(ob, parsed) == <<>>

\* Mutant: an incomplete last line is discarded.
KeepLast_Drop(segments) == <<>>

\* lines.pop() || "": the last, possibly incomplete, line is kept
KeepLast(segments) == segments[Len(segments)]

\* for (const line of lines) {...}: [objectBuffer, yielded, err]
RECURSIVE ProcessLines(_, _, _, _)
ProcessLines(lines, ob, out, err) ==
    IF lines = <<>> THEN [objectBuffer |-> ob, yielded |-> out, err |-> err]
    ELSE LET line == Head(lines) IN
        IF IsBlank(line) THEN
            IF Truthy(ob)
            THEN LET r == ParseAndYield(ob, out, err)
                 IN ProcessLines(Tail(lines), ResetObjectBuffer(ob, JsonParse(ob).ok),
                                 r.yielded, r.err)
            ELSE ProcessLines(Tail(lines), ob, out, err)
        ELSE IF StartsWithData(line)
        THEN ProcessLines(Tail(lines), ob \o Payload(line), out, err)
        ELSE ProcessLines(Tail(lines), ob, out, err)

\* Lines 131-148: one value delivered by reader.read().
\* st = [buffer, objectBuffer, yielded, err]
ReadValue(st, value) ==
    LET segments == Split(st.buffer \o value)
        lines == SubSeq(segments, 1, Len(segments) - 1)
        r == ProcessLines(lines, st.objectBuffer, st.yielded, st.err)
    IN [buffer |-> KeepLast(segments), objectBuffer |-> r.objectBuffer,
        yielded |-> r.yielded, err |-> r.err]

\* Lines 120-129: reader.read() reports done.
ReadDone(st) ==
    LET r == ParseAndYield(st.objectBuffer, st.yielded, st.err)
    IN [buffer |-> st.buffer, objectBuffer |-> st.objectBuffer,
        yielded |-> r.yielded, err |-> r.err]

SSEStart == [buffer |-> <<>>, objectBuffer |-> <<>>, yielded |-> <<>>, err |-> FALSE]

\* Lines of an upstream body (without their newline)
LineFull == DataPrefix \o <<"[", "1", "]">>          \* data: [1]
LineHead == DataPrefix \o <<"[", "1", ",">>          \* data: [1,
LineTail == DataPrefix \o <<"1", "]">>               \* data: 1]
LineBlank == <<>>
LineCR == <<"\r">>                                   \* blank line of a CRLF body
LineNoSpace == <<"d", "a", "t", "a", ":", "[", "]">> \* data:[]  (no space)
BodyLines == {LineFull, LineHead, LineTail, LineBlank, LineCR, LineNoSpace}

\* text \n text \n ... : every line with its newline
RECURSIVE JoinLines(_)
JoinLines(ls) == IF ls = <<>> THEN <<>> ELSE Head(ls) \o <<"\n">> \o JoinLines(Tail(ls))

\* Upstream bodies: up to MaxLines terminated lines, then a possibly empty
\* line that the body ends in without a newline.
Bodies ==
    {JoinLines(ls) \o last : ls \in SeqsUpTo(BodyLines, MaxLines), last \in BodyLines}

SSECurrent ==
    [buffer |-> buffer, objectBuffer |-> objectBuffer, yielded |-> yielded,
     err |-> sawParseError]

SetSSE(st) ==
    /\ buffer' = st.buffer
    /\ objectBuffer' = st.objectBuffer
    /\ yielded' = st.yielded
    /\ sawParseError' = st.err

InitSSE ==
    /\ bodyFrames = <<>>
    /\ stream \in Bodies
    /\ pos = 0 /\ buffer = <<>> /\ objectBuffer = <<>>
    /\ yielded = <<>> /\ sseDone = FALSE /\ sawParseError = FALSE
    /\ InitIdlePipe /\ InitIdlePart /\ InitIdleAuth /\ InitIdleConfig
    /\ InitIdleChunker

\* reader.read() resolves with the next n characters of the body.
Read ==
    /\ ~sseDone
    /\ pos < Len(stream)
    /\ \E n \in 1..MaxRead :
        /\ pos + n <= Len(stream)
        /\ SetSSE(ReadValue(SSECurrent, SubSeq(stream, pos + 1, pos + n)))
        /\ pos' = pos + n
    /\ UNCHANGED <<bodyFrames, stream, sseDone, pipeVars, partVars, authVars,
                   configVars, chunkVars>>

\* reader.read() resolves with done: true.
ReadEnd ==
    /\ ~sseDone
    /\ pos = Len(stream)
    /\ SetSSE(ReadDone(SSECurrent))
    /\ sseDone' = TRUE
    /\ UNCHANGED <<bodyFrames, stream, pos, pipeVars, partVars, authVars,
                   configVars, chunkVars>>

NextSSE == Read \/ ReadEnd

\* Frames: the payloads of a frame's data lines.  A frame is rendered as one
\* "data: <payload>\n" line per payload and a blank line.
FrameOne == <<<<"[", "1", "]">>>>                      \* [1]
FrameTwo == <<<<"[", "1", ",">>, <<"1", "]">>>>        \* [1,1] over two lines
FrameBadHead == <<<<"[", "1", ",">>>>                  \* malformed: [1,
FrameBadTail == <<<<"1", "]">>>>                       \* malformed: 1]
FrameEmpty == <<>>                                     \* a lone blank line
FrameKinds == {FrameOne, FrameTwo, FrameBadHead, FrameBadTail, FrameEmpty}

RenderFrame(frame) ==
    FlattenSeq([i \in 1..Len(frame) |-> DataPrefix \o frame[i] \o <<"\n">>])
    \o <<"\n">>

RenderFrames(frames) ==
    FlattenSeq([i \in 1..Len(frames) |-> RenderFrame(frames[i])])

InitFrames ==
    /\ bodyFrames \in SeqsUpTo(FrameKinds, MaxFrames)
    /\ stream = RenderFrames(bodyFrames)
    /\ pos = 0 /\ buffer = <<>> /\ objectBuffer = <<>>
    /\ yielded = <<>> /\ sseDone = FALSE /\ sawParseError = FALSE
    /\ InitIdlePipe /\ InitIdlePart /\ InitIdleAuth /\ InitIdleConfig
    /\ InitIdleChunker

SpecFrames == InitFrames /\ [][NextSSE]_vars

SpecSSE == InitSSE /\ [][NextSSE]_vars

----------------------------------------------------------------------------
(* Classification of a single part, over all short part texts               *)

TextTokens == {OpenTag, CloseTag, "A", "B", " "}

\* Texts holding two tag pairs with inner text, which are longer than
\* MaxTextLen: "<think>A</think>" rest "<think>B</think>" rest
TwoPairTexts ==
    {<<OpenTag, "A", CloseTag>> \o r1 \o <<OpenTag, "B", CloseTag>> \o r2 :
        r1 \in {<<>>, <<" ">>}, r2 \in {<<>>, <<"B">>}}

PartTexts == SeqsUpTo(TextTokens, MaxTextLen) \cup TwoPairTexts

PartInputs ==
    [part : [thought : BOOLEAN, text : PartTexts],
     needsThinkingClose : BOOLEAN, realThinkingAsContent : BOOLEAN,
     started : BOOLEAN, closed : BOOLEAN]

InitPart ==
    /\ partIn \in PartInputs
    /\ partOut = <<>>
    /\ InitIdlePipe /\ InitIdleSSE /\ InitIdleAuth /\ InitIdleConfig
    /\ InitIdleChunker

\* One iteration of the loop over candidate.content.parts (lines 471-561)
ClassifyOne ==
    /\ partOut = <<>>
    /\ partOut' = <<ClassifyPart(partIn.part, partIn.needsThinkingClose,
                                 partIn.realThinkingAsContent, partIn.started,
                                 partIn.closed)>>
    /\ UNCHANGED <<partIn, pipeVars, sseVars, authVars, configVars, chunkVars>>

NextPart == ClassifyOne

SpecPart == InitPart /\ [][NextPart]_vars

----------------------------------------------------------------------------
(* The native Gemini routes: GeminiRoute.post("/models/:modelAction") and   *)
(* GeminiRoute.post("/models/:model/streamGenerateContent").  bodyStream is *)
(* isStreaming, modelId the model of the path.                              *)

\* response.ok
IsOk(status) == status \in 200..299

\* Mutant: a rate-limited request is retried as well.
ShouldRetryNative_RateLimit(status) == status \in {401, 429}

\* if (response.status === 401) (gemini.ts 143, 324)
ShouldRetryNative(status) == status = 401

\* c.json({error: `Generate content failed: ${status}`}, status)
NativeError(status) ==
    ErrorResponse(status, <<"Generate content failed: ", ToString(status)>>)

\* new Response(response.body, ...) / c.json(data): the upstream answer
\* passed through
NativePassThrough(isStreaming) ==
    [status |-> 200, passthrough |-> IF isStreaming THEN "body" ELSE "json"]

\* HTTP statuses the upstream answers a native request with
NativeStatuses == Statuses \cup {204, 400, 403, 404}

InitNative ==
    /\ modelId \in BodyModels
    /\ bodyStream \in BOOLEAN
    /\ isFakeThinkingEnabled = FALSE /\ includeReasoning = FALSE
    /\ streamThinkingAsContent = FALSE /\ autoSwitchEnabled = FALSE
    /\ pc = "native"
    /\ requestModel = NoModel
    /\ needsThinkingClose = FALSE /\ isRetry = FALSE
    /\ hasStartedThinking = FALSE /\ hasClosedThinking = FALSE
    /\ received = 0 /\ partsSeen = 0 /\ events = <<>> /\ reader = "none"
    /\ errorMessage = <<>>
    /\ fetchCount = 0 /\ statuses = <<>> /\ fetchModels = <<>>
    /\ clearCount = 0 /\ authCount = 0
    /\ frags = <<>> /\ chatID = "" /\ creationTime = 0
    /\ transformerModel = NoModel /\ firstChunk = TRUE /\ sse = <<>>
    /\ completionModel = NoModel /\ inFallback = FALSE
    /\ content = <<>> /\ usage = <<>> /\ response = <<>> /\ initAuthCount = 0
    /\ InitIdleSSE /\ InitIdlePart /\ InitIdleAuth /\ InitIdleConfig
    /\ InitIdleChunker

nativeUnchanged ==
    <<cfgVars, idVars, reqVars, flagVars, reader, received, partsSeen, events, outVars,
      bodyStream, completionModel, inFallback, sseVars, partVars, authVars,
      configVars, chunkVars>>

\* gemini.ts 105-113, 297-305: initializeAuth and discoverProjectId; a throw
\* of either reaches the handler's catch (500).
NativeBegin ==
    /\ pc = "native"
    /\ initAuthCount' = initAuthCount + 1
    /\ \E ok \in BOOLEAN :
          IF ok
          THEN /\ pc' = "nativeRequest"
               /\ UNCHANGED <<errorMessage, response>>
          ELSE /\ pc' = "responded"
               /\ errorMessage' = <<"Authentication failed">>
               /\ response' = <<ErrorResponse(500, <<"Authentication failed">>)>>
    /\ UNCHANGED <<countVars, nativeUnchanged>>

\* gemini.ts 133-147 and 181-205, 314-327 and 358-377: the first fetch.  A
\* 401 clears the cache and re-authenticates; another failure is answered
\* with the upstream status; success is passed through.
NativeFetch ==
    /\ pc = "nativeRequest"
    /\ \E status \in NativeStatuses, authOk \in BOOLEAN, hasBody \in BOOLEAN :
        /\ fetchCount' = fetchCount + 1
        /\ statuses' = Append(statuses, status)
        /\ fetchModels' = Append(fetchModels, modelId)
        /\ IF ~IsOk(status) THEN
              IF ShouldRetryNative(status) THEN
                  /\ clearCount' = ClearAndReauth(clearCount, authCount).clears
                  /\ authCount' = ClearAndReauth(clearCount, authCount).auths
                  /\ IF authOk
                     THEN /\ pc' = "nativeRetry"
                          /\ UNCHANGED <<errorMessage, response>>
                     ELSE /\ pc' = "responded"
                          /\ errorMessage' = <<"Authentication failed">>
                          /\ response' =
                                <<ErrorResponse(500, <<"Authentication failed">>)>>
              ELSE
                  /\ pc' = "responded"
                  /\ response' = <<NativeError(status)>>
                  /\ UNCHANGED <<clearCount, authCount, errorMessage>>
           ELSE
              /\ pc' = "responded"
              /\ IF bodyStream /\ ~hasBody
                 THEN /\ errorMessage' = <<"Response has no body">>
                      /\ response' = <<ErrorResponse(500, <<"Response has no body">>)>>
                 ELSE /\ errorMessage' = errorMessage
                      /\ response' = <<NativePassThrough(bodyStream)>>
              /\ UNCHANGED <<clearCount, authCount>>
    /\ UNCHANGED <<initAuthCount, nativeUnchanged>>

\* gemini.ts 149-178, 330-355: the retry; its outcome is the answer.
NativeRetry ==
    /\ pc = "nativeRetry"
    /\ \E status \in NativeStatuses :
        /\ fetchCount' = fetchCount + 1
        /\ statuses' = Append(statuses, status)
        /\ fetchModels' = Append(fetchModels, modelId)
        /\ response' = IF ~IsOk(status) THEN <<NativeError(status)>>
                       ELSE <<NativePassThrough(bodyStream)>>
    /\ pc' = "responded"
    /\ UNCHANGED <<clearCount, authCount, errorMessage, initAuthCount,
                   nativeUnchanged>>

NextNative == NativeBegin \/ NativeFetch \/ NativeRetry

SpecNative == InitNative /\ [][NextNative]_vars

----------------------------------------------------------------------------
(* AuthManager.initializeAuth                                               *)

CachedToken == "cached-token"
EnvToken == "env-token"
RefreshedToken == "refreshed-token"

\* CachedTokenData / OAuth2Credentials, the fields initializeAuth reads
TokenData(token, expiry) == [access_token |-> token, expiry_date |-> expiry]

\* Mutant: a token is taken as valid until it expires.
IsValidBeyondBuffer_NoBuffer(expiry, time, bufferTime) == expiry - time > 0

\* Mutant: a token with exactly the buffer time left is taken as valid.
IsValidBeyondBuffer_AtBuffer(expiry, time, bufferTime) == expiry - time >= bufferTime

\* timeUntilExpiry > TOKEN_BUFFER_TIME (lines 495-496, 508-509)
IsValidBeyondBuffer(expiry, time, bufferTime) == expiry - time > bufferTime

\* Math.floor((expiryDate - Date.now()) / 1000) - 300
ttlSeconds(expiryDate, time) == ((expiryDate - time) \div 1000) - 300

\* cacheTokenInKV(accessToken, expiryDate): the KV entry afterwards.  The
\* put is made only for a positive TTL, and a put that throws is swallowed.
cacheTokenInKV(kv, token, expiryDate, time, kvPutOk) ==
    IF ttlSeconds(expiryDate, time) > 0 /\ kvPutOk
    THEN <<TokenData(token, expiryDate)>>
    ELSE kv

AuthResult(kv, token, refreshes, source, error) ==
    [kv |-> kv, accessToken |-> token, refreshes |-> refreshes,
     source |-> source, error |-> error]

\* initializeAuth(): [kv, accessToken, refreshes, source, error] from the KV
\* entry, the credentials, the token held, the clock, and the outcomes of
\* the KV get, the KV put and the refresh request.  The clock does not
\* advance during the call.
initializeAuth(kv, creds, token, time, bufferTime, kvGetOk, kvPutOk, refresh) ==
    IF creds = <<>>
    THEN AuthResult(kv, token, 0, "none",
                    <<"GCP_SERVICE_ACCOUNT environment variable not set.">>)
    ELSE LET cachedTokenData == IF kvGetOk THEN kv ELSE <<>>
             oauth2Creds == creds[1]
         IN IF /\ cachedTokenData # <<>>
               /\ IsValidBeyondBuffer(cachedTokenData[1].expiry_date, time, bufferTime)
            THEN AuthResult(kv, cachedTokenData[1].access_token, 0, "cache", <<>>)
            ELSE IF IsValidBeyondBuffer(oauth2Creds.expiry_date, time, bufferTime)
            THEN AuthResult(cacheTokenInKV(kv, oauth2Creds.access_token,
                                           oauth2Creds.expiry_date, time, kvPutOk),
                            oauth2Creds.access_token, 0, "env", <<>>)
            ELSE IF ~refresh.ok
            THEN AuthResult(kv, token, 1, "none",
                            <<"Authentication failed: ", "Token refresh failed: ">>)
            ELSE AuthResult(cacheTokenInKV(kv, RefreshedToken,
                                           time + refresh.expires_in * 1000,
                                           time, kvPutOk),
                            RefreshedToken, 1, "refresh", <<>>)

\* Date.now() at the call
Now0 == 1000000

\* Remaining lifetimes of a stored token, in milliseconds
Lifetimes == {-1000, 60500, 300000, 300500, 301000, 3600000}

\* Values TOKEN_BUFFER_TIME may have (config.ts is not among the sources)
BufferTimes == {60000, 300000}

\* Outcomes of the refresh request: failure, or expires_in seconds
RefreshResults ==
    {[ok |-> FALSE, expires_in |-> 0], [ok |-> TRUE, expires_in |-> 300],
     [ok |-> TRUE, expires_in |-> 3600]}

StoredTokens(token) ==
    {<<>>} \cup {<<TokenData(token, Now0 + d)>> : d \in Lifetimes}

\* new AuthManager(env): accessToken is null
InitAuth ==
    /\ kvToken \in StoredTokens(CachedToken)
    /\ envCreds \in StoredTokens(EnvToken)
    /\ accessToken = Null
    /\ now = Now0
    /\ tokenBufferTime \in BufferTimes
    /\ refreshCount = 0
    /\ lastAuth = <<>>
    /\ authPc = <<>> /\ rejectedToken = <<>> /\ pendingPut = <<>>
    /\ InitIdlePipe /\ InitIdleSSE /\ InitIdlePart /\ InitIdleConfig
    /\ InitIdleChunker

\* One call of initializeAuth()
InitializeAuth ==
    /\ lastAuth = <<>>
    /\ \E kvGetOk \in BOOLEAN, kvPutOk \in BOOLEAN, refresh \in RefreshResults :
          LET r == initializeAuth(kvToken, envCreds, accessToken, now,
                                  tokenBufferTime, kvGetOk, kvPutOk, refresh)
          IN /\ kvToken' = r.kv
             /\ accessToken' = r.accessToken
             /\ refreshCount' = refreshCount + r.refreshes
             /\ lastAuth' = <<[kvBefore |-> kvToken, kvGetOk |-> kvGetOk,
                               kvPutOk |-> kvPutOk, refresh |-> refresh,
                               source |-> r.source, error |-> r.error]>>
    /\ UNCHANGED <<envCreds, now, tokenBufferTime, raceVars, pipeVars, sseVars,
                   partVars, configVars, chunkVars>>

NextAuth == InitializeAuth

SpecAuth == InitAuth /\ [][NextAuth]_vars

----------------------------------------------------------------------------
(* Concurrent requests: each has its own AuthManager (openai.ts 143) and    *)
(* they share GEMINI_CLI_KV, the credentials and the clock.  A step is the  *)
(* code between two awaits.                                                 *)

Requests == {"r1", "r2"}

MaxTicks == 1       \* advances of the clock during the requests

\* Milliseconds the clock advances by between two steps
ClockSteps == {1000}

\* refreshData.access_token: the n-th refresh returns a token of its own
FreshTokens ==
    <<"refreshed-token-1", "refreshed-token-2", "refreshed-token-3",
      "refreshed-token-4">>

\* tokenData of cacheTokenInKV (lines 572-576)
CachedTokenData(token, expiry, cachedAt) ==
    [access_token |-> token, expiry_date |-> expiry, cached_at |-> cachedAt]

\* What the store may hold when the requests arrive: nothing, or a token an
\* earlier request cached an hour before its expiry - a refreshed token or
\* the environment's token.
RaceStoredEntries(creds) ==
    {<<>>}
    \cup {<<CachedTokenData(CachedToken, Now0 + d, Now0 + d - 3600000)>> :
            d \in Lifetimes}
    \cup (IF creds = <<>> THEN {}
          ELSE {<<CachedTokenData(creds[1].access_token, creds[1].expiry_date,
                                  creds[1].expiry_date - 3600000)>>})

\* The token a request holds and where it came from
Selection(source, token, expiry, time) ==
    [source |-> source, access_token |-> token, expiry_date |-> expiry,
     time |-> time]

InitAuthRace ==
    /\ envCreds \in StoredTokens(EnvToken)
    /\ kvToken \in RaceStoredEntries(envCreds)
    /\ tokenBufferTime \in BufferTimes
    /\ now = Now0
    /\ refreshCount = 0
    /\ accessToken = [r \in Requests |-> Null]
    /\ lastAuth = [r \in Requests |-> <<>>]
    /\ authPc = [r \in Requests |-> "initializeAuth"]
    /\ rejectedToken = [r \in Requests |-> Null]
    /\ pendingPut = [r \in Requests |-> <<>>]
    /\ InitIdlePipe /\ InitIdleSSE /\ InitIdlePart /\ InitIdleConfig
    /\ InitIdleChunker

raceUnchanged == <<envCreds, tokenBufferTime, pipeVars, sseVars, partVars, configVars, chunkVars>>

\* cacheTokenInKV up to its await (lines 571-582): the put is issued for a
\* positive TTL only.  [pc, put]
IssuePut(token, expiryDate, time) ==
    IF ttlSeconds(expiryDate, time) > 0
    THEN [pc |-> "kvPut", put |-> <<CachedTokenData(token, expiryDate, time)>>]
    ELSE [pc |-> "authenticated", put |-> <<>>]

\* initializeAuth 475-521: the KV get and the selection that follows it.
AuthSelect(r) ==
    /\ authPc[r] = "initializeAuth"
    /\ \E kvGetOk \in BOOLEAN :
          LET cachedTokenData == IF kvGetOk THEN kvToken ELSE <<>>
          IN IF envCreds = <<>>
             THEN /\ authPc' = [authPc EXCEPT ![r] = "failed"]
                  /\ UNCHANGED <<accessToken, lastAuth, pendingPut>>
             ELSE IF /\ cachedTokenData # <<>>
                     /\ IsValidBeyondBuffer(cachedTokenData[1].expiry_date, now,
                                            tokenBufferTime)
             THEN /\ accessToken' =
                        [accessToken EXCEPT ![r] = cachedTokenData[1].access_token]
                  /\ lastAuth' = [lastAuth EXCEPT ![r] =
                        <<Selection("cache", cachedTokenData[1].access_token,
                                    cachedTokenData[1].expiry_date, now)>>]
                  /\ authPc' = [authPc EXCEPT ![r] = "authenticated"]
                  /\ UNCHANGED pendingPut
             ELSE IF IsValidBeyondBuffer(envCreds[1].expiry_date, now,
                                         tokenBufferTime)
             THEN LET p == IssuePut(envCreds[1].access_token,
                                    envCreds[1].expiry_date, now)
                  IN /\ accessToken' =
                           [accessToken EXCEPT ![r] = envCreds[1].access_token]
                     /\ lastAuth' = [lastAuth EXCEPT ![r] =
                           <<Selection("env", envCreds[1].access_token,
                                       envCreds[1].expiry_date, now)>>]
                     /\ authPc' = [authPc EXCEPT ![r] = p.pc]
                     /\ pendingPut' = [pendingPut EXCEPT ![r] = p.put]
             ELSE /\ authPc' = [authPc EXCEPT ![r] = "refresh"]
                  /\ UNCHANGED <<accessToken, lastAuth, pendingPut>>
    /\ UNCHANGED <<kvToken, now, refreshCount, rejectedToken, raceUnchanged>>

\* refreshAndCacheToken 532-564: the answer of the refresh endpoint.
AuthRefresh(r) ==
    /\ authPc[r] = "refresh"
    /\ refreshCount < Len(FreshTokens)
    /\ refreshCount' = refreshCount + 1
    /\ \E refresh \in RefreshResults :
          IF ~refresh.ok
          THEN /\ authPc' = [authPc EXCEPT ![r] = "failed"]
               /\ UNCHANGED <<accessToken, lastAuth, pendingPut>>
          ELSE LET token == FreshTokens[refreshCount + 1]
                   expiryTime == now + refresh.expires_in * 1000
                   p == IssuePut(token, expiryTime, now)
               IN /\ accessToken' = [accessToken EXCEPT ![r] = token]
                  /\ lastAuth' = [lastAuth EXCEPT ![r] =
                        <<Selection("refresh", token, expiryTime, now)>>]
                  /\ authPc' = [authPc EXCEPT ![r] = p.pc]
                  /\ pendingPut' = [pendingPut EXCEPT ![r] = p.put]
    /\ UNCHANGED <<kvToken, now, rejectedToken, raceUnchanged>>

\* cacheTokenInKV 582-592: the put completes, or throws and is swallowed.
KvPut(r) ==
    /\ authPc[r] = "kvPut"
    /\ \E kvPutOk \in BOOLEAN :
          kvToken' = IF kvPutOk THEN pendingPut[r] ELSE kvToken
    /\ pendingPut' = [pendingPut EXCEPT ![r] = <<>>]
    /\ authPc' = [authPc EXCEPT ![r] = "authenticated"]
    /\ UNCHANGED <<accessToken, now, refreshCount, lastAuth, rejectedToken,
                   raceUnchanged>>

\* performStreamRequest 406-416: the request carrying the token is answered;
\* a 401 to the first attempt leads to clearTokenCache.
RequestAnswered(r) ==
    /\ authPc[r] = "authenticated"
    /\ \E unauthorized \in BOOLEAN :
          IF unauthorized /\ rejectedToken[r] = Null
          THEN /\ rejectedToken' = [rejectedToken EXCEPT ![r] = accessToken[r]]
               /\ authPc' = [authPc EXCEPT ![r] = "clearTokenCache"]
          ELSE /\ authPc' = [authPc EXCEPT ![r] = "answered"]
               /\ UNCHANGED rejectedToken
    /\ UNCHANGED <<kvToken, accessToken, now, refreshCount, lastAuth, pendingPut,
                   raceUnchanged>>

\* clearTokenCache 598-605: the delete completes, or throws and is
\* swallowed; initializeAuth is called next (line 419).
ClearTokenCache(r) ==
    /\ authPc[r] = "clearTokenCache"
    /\ \E kvDeleteOk \in BOOLEAN :
          kvToken' = IF kvDeleteOk THEN <<>> ELSE kvToken
    /\ authPc' = [authPc EXCEPT ![r] = "initializeAuth"]
    /\ UNCHANGED <<accessToken, now, refreshCount, lastAuth, rejectedToken,
                   pendingPut, raceUnchanged>>

\* Date.now() advances.
Tick ==
    /\ (now - Now0) \div 1000 < MaxTicks
    /\ \E d \in ClockSteps : now' = now + d
    /\ UNCHANGED <<kvToken, accessToken, refreshCount, lastAuth, raceVars,
                   raceUnchanged>>

NextAuthRace ==
    \/ \E r \in Requests :
          \/ AuthSelect(r)
          \/ AuthRefresh(r)
          \/ KvPut(r)
          \/ RequestAnswered(r)
          \/ ClearTokenCache(r)
    \/ Tick

SpecAuthRace == InitAuthRace /\ [][NextAuthRace]_vars

----------------------------------------------------------------------------
(* GenerationConfigValidator                                                *)

DEFAULT_THINKING_BUDGET == -1
DEFAULT_TEMPERATURE == "0.7"

\* validateThinkingBudget(modelId, thinkingBudget)
validateThinkingBudget(model, thinkingBudget) ==
    IF IsThinkingModel(model) /\ (thinkingBudget = 0 \/ thinkingBudget < -1)
    THEN DEFAULT_THINKING_BUDGET
    ELSE thinkingBudget

ThinkingConfig(budget, includeThoughts) ==
    [thinkingBudget |-> budget, includeThoughts |-> includeThoughts]

\* createValidatedConfig(modelId, options, isRealThinkingEnabled,
\* includeReasoning).  An optional value is <<>> when absent, <<v>> when
\* given; the config is [temperature, thinkingConfig].
createValidatedConfig(model, options, isRealThinkingEnabled, reasoning) ==
    LET given == options.generationConfig
        temperature == IF given.temperature # <<>> THEN given.temperature[1]
                       ELSE DEFAULT_TEMPERATURE
        requestedBudget == IF options.thinkingBudget # <<>>
                           THEN options.thinkingBudget[1]
                           ELSE DEFAULT_THINKING_BUDGET
        validatedBudget == validateThinkingBudget(model, requestedBudget)
    IN [temperature |-> temperature,
        thinkingConfig |->
            IF ~IsThinkingModel(model) THEN given.thinkingConfig
            ELSE IF isRealThinkingEnabled /\ reasoning
            THEN <<ThinkingConfig(validatedBudget, TRUE)>>
            ELSE <<ThinkingConfig(
                     validateThinkingBudget(model, DEFAULT_THINKING_BUDGET),
                     FALSE)>>]

\* thinking budgets a caller may ask for
RequestedBudgets == {<<>>, <<-5>>, <<-1>>, <<0>>, <<1024>>}

\* options.generationConfig, the two fields the config keeps track of
GivenConfigs ==
    [temperature : {<<>>, <<"1">>},
     thinkingConfig : {<<>>, <<ThinkingConfig(0, TRUE)>>}]

ConfigInputs ==
    [modelId : BodyModels,
     options : [thinkingBudget : RequestedBudgets, generationConfig : GivenConfigs],
     isRealThinkingEnabled : BOOLEAN, includeReasoning : BOOLEAN]

InitConfig ==
    /\ configIn \in ConfigInputs
    /\ configOut = <<>>
    /\ InitIdlePipe /\ InitIdleSSE /\ InitIdlePart /\ InitIdleAuth
    /\ InitIdleChunker

\* One call of createValidatedConfig (gemini-client.ts 264-272)
CreateValidatedConfig ==
    /\ configOut = <<>>
    /\ configOut' = <<createValidatedConfig(configIn.modelId, configIn.options,
                                            configIn.isRealThinkingEnabled,
                                            configIn.includeReasoning)>>
    /\ UNCHANGED <<configIn, pipeVars, sseVars, partVars, authVars, chunkVars>>

NextConfig == CreateValidatedConfig

SpecConfig == InitConfig /\ [][NextConfig]_vars

----------------------------------------------------------------------------
(* The chunker of generateReasoningOutput (gemini-client.ts 335-365):       *)
(* fullReasoningText is cut into chunks of about                            *)
(* THINKING_CONTENT_CHUNK_SIZE characters.  Characters are UTF-16 code      *)
(* units, as for String.prototype.length and substring.                     *)

THINKING_CONTENT_CHUNK_SIZE == 15
LookAhead == 10     \* chunkEnd + 10 (line 351)

MaxNarrative == 28  \* characters in fullReasoningText

\* const goodBreaks = [" ", "\n", ".", ",", "!", "?", ";", ":"] (line 352)
goodBreaks == <<" ", "\n", ".", ",", "!", "?", ";", ":">>

\* text.substring(from, to), 0-based, to exclusive and clamped to the length
Substring(text, from, to) ==
    SubSeq(text, from + 1, IF to < Len(text) THEN to ELSE Len(text))

\* text.lastIndexOf(ch): 0-based, -1 when ch does not occur; the search
\* runs backwards from the character at 1-based position i
RECURSIVE LastIndexFrom(_, _, _)
LastIndexFrom(text, ch, i) ==
    IF i = 0 THEN -1
    ELSE IF text[i] = ch THEN i - 1
    ELSE LastIndexFrom(text, ch, i - 1)

lastIndexOf(text, ch) == LastIndexFrom(text, ch, Len(text))

\* Mutant: the break point is searched in all that remains.
SearchSpace_Whole(remaining, chunkEnd) == remaining

\* remainingText.substring(0, chunkEnd + 10) (line 351)
SearchSpace(remaining, chunkEnd) == Substring(remaining, 0, chunkEnd + LookAhead)

\* if (lastBreak > THINKING_CONTENT_CHUNK_SIZE * 0.7) (line 356), in tenths
IsGoodBreak(lastBreak) == lastBreak * 10 > THINKING_CONTENT_CHUNK_SIZE * 7

\* Lines 354-361, for (const breakChar of goodBreaks) from the k-th break
\* character on: the first break character, in the order of the array,
\* whose last occurrence in the search space is far enough decides the end
\* of the chunk; chunkEnd keeps its value when there is none.
RECURSIVE BreakFrom(_, _, _)
BreakFrom(searchSpace, chunkEnd, k) ==
    IF k > Len(goodBreaks) THEN chunkEnd
    ELSE IF IsGoodBreak(lastIndexOf(searchSpace, goodBreaks[k]))
    THEN lastIndexOf(searchSpace, goodBreaks[k]) + 1
    ELSE BreakFrom(searchSpace, chunkEnd, k + 1)

\* Lines 350-361: the end of the next chunk of a text longer than the chunk
\* size.
ChunkEnd(remaining) ==
    BreakFrom(SearchSpace(remaining, THINKING_CONTENT_CHUNK_SIZE),
              THINKING_CONTENT_CHUNK_SIZE, 1)

\* Narratives: letters with at most two break characters, at any positions
BreakChars == {" ", "."}

NarrativesOfLength(n) ==
    {[i \in 1..n |-> "a"]}
    \cup {[i \in 1..n |-> IF i = p THEN c ELSE IF i = q THEN d ELSE "a"] :
             p \in 1..n, q \in 1..n, c \in BreakChars, d \in BreakChars}

Narratives == UNION {NarrativesOfLength(n) : n \in 0..MaxNarrative}

InitChunker ==
    /\ fullReasoningText = <<>>
    /\ remainingText = <<>>
    /\ chunks = <<>>
    /\ chunkPc = "start"
    /\ InitIdlePipe /\ InitIdleSSE /\ InitIdlePart /\ InitIdleAuth
    /\ InitIdleConfig

chunkerUnchanged == <<pipeVars, sseVars, partVars, authVars, configVars>>

\* Lines 335-341: the narrative is joined and the loop's locals are set.
JoinNarrative ==
    /\ chunkPc = "start"
    /\ fullReasoningText' \in Narratives
    /\ remainingText' = fullReasoningText'
    /\ chunks' = <<>>
    /\ chunkPc' = "loop"
    /\ UNCHANGED chunkerUnchanged

\* Lines 343-347: what remains fits one chunk; it is pushed and the loop is
\* left with break.
PushLast ==
    /\ chunkPc = "loop"
    /\ Len(remainingText) > 0
    /\ Len(remainingText) <= THINKING_CONTENT_CHUNK_SIZE
    /\ chunks' = Append(chunks, remainingText)
    /\ chunkPc' = "done"
    /\ UNCHANGED <<fullReasoningText, remainingText, chunkerUnchanged>>

\* Lines 349-364: one chunk is cut off what remains.
PushChunk ==
    /\ chunkPc = "loop"
    /\ Len(remainingText) > THINKING_CONTENT_CHUNK_SIZE
    /\ LET chunkEnd == ChunkEnd(remainingText)
       IN /\ chunks' = Append(chunks, Substring(remainingText, 0, chunkEnd))
          /\ remainingText' = Substring(remainingText, chunkEnd, Len(remainingText))
    /\ UNCHANGED <<fullReasoningText, chunkPc, chunkerUnchanged>>

\* Line 343: while (remainingText.length > 0) finds nothing left.
LoopExit ==
    /\ chunkPc = "loop"
    /\ Len(remainingText) = 0
    /\ chunkPc' = "done"
    /\ UNCHANGED <<fullReasoningText, remainingText, chunks, chunkerUnchanged>>

NextChunker ==
    \/ JoinNarrative
    \/ PushLast
    \/ PushChunk
    \/ LoopExit

SpecChunker == InitChunker /\ [][NextChunker]_vars

\* The loop is synchronous code: an iteration that can run does run.
FairSpecChunker == SpecChunker /\ WF_vars(NextChunker)

----------------------------------------------------------------------------
(* Observations shared by the properties                                    *)

IsOpenDelimiter(f) == f.type = "thinking_content" /\ f.data = OpenDelimiter
IsCloseDelimiter(f) == f.type = "thinking_content" /\ f.data = CloseDelimiter
IsUpstreamText(f) == f.type = "text" /\ f.origin = "upstream"

OpenCount == Count(frags, IsOpenDelimiter)
CloseCount == Count(frags, IsCloseDelimiter)

IsSentinel(c) == "sentinel" \in DOMAIN c
IsChunk(c) == "delta" \in DOMAIN c
HasRole(c) == IsChunk(c) /\ "role" \in DOMAIN c.delta
HasContent(c) == IsChunk(c) /\ "content" \in DOMAIN c.delta
HasReasoning(c) == IsChunk(c) /\ "reasoning" \in DOMAIN c.delta
IsContentBearing(c) == HasContent(c) \/ HasReasoning(c)
IsFinishChunk(c) == IsChunk(c) /\ c.finish_reason = "stop" /\ c.delta = <<>>

RoleCount == Count(sse, HasRole)

\* i is the first index of sse at which P holds
IsFirst(i, P(_)) == P(sse[i]) /\ \A j \in 1..(i - 1) : ~P(sse[j])

----------------------------------------------------------------------------
(* C1 *)

\* C1: in every state of a streamContent call - whatever the thinking flags,
\* the statuses of the attempts and the upstream events - the chunks yielded
\* so far hold at most one opening delimiter "<thinking>\n" and at most one
\* closing delimiter "\n</thinking>\n\n".
C1_AtMostOneDelimiterPair == OpenCount <= 1 /\ CloseCount <= 1

\* A stream that went through a replay, opened and closed the section once
\* and then yielded a second upstream text with the section already closed.
C1_Witness ==
    /\ pc = "closed" /\ fetchCount = 2
    /\ OpenCount = 1 /\ CloseCount = 1
    /\ Count(frags, IsUpstreamText) = 2

----------------------------------------------------------------------------
(* C2 *)

\* C2 as stated: a closed stream has exactly one chunk with delta.role, and
\* that chunk is the first content-bearing chunk (content or reasoning).
C2_Original ==
    pc = "closed" =>
        /\ RoleCount = 1
        /\ \A i \in DOMAIN sse : HasRole(sse[i]) <=> IsFirst(i, IsContentBearing)

\* C2 amended: at most one chunk carries delta.role; a chunk carries it
\* exactly when it is the first chunk with delta.content (a text or
\* thinking-as-content chunk); reasoning chunks never carry it.
C2_RoleOnFirstContentChunk ==
    /\ RoleCount <= 1
    /\ \A i \in DOMAIN sse :
          /\ HasRole(sse[i]) <=> IsFirst(i, HasContent)
          /\ HasReasoning(sse[i]) => ~HasRole(sse[i])

\* A closed stream whose first content-bearing chunk is a reasoning chunk and
\* whose role announcement comes later, on the first content chunk.
C2_Witness ==
    /\ pc = "closed"
    /\ HasReasoning(sse[1])
    /\ \E i \in 2..Len(sse) : HasRole(sse[i])

----------------------------------------------------------------------------
(* C3 *)

\* C3: the role field appears on at most one emitted chunk, and once the
\* firstChunk flag has been consumed no step sets it again.
C3_RoleAtMostOnce ==
    /\ [](RoleCount <= 1)
    /\ [][firstChunk = FALSE => firstChunk' = FALSE]_vars

\* The flag is consumed and a later content chunk was emitted without role.
C3_Witness ==
    /\ firstChunk = FALSE
    /\ RoleCount = 1
    /\ Count(sse, HasContent) >= 3

----------------------------------------------------------------------------
(* C4 *)

\* C4: a closed stream ends with the finish chunk (finish_reason "stop",
\* empty delta) immediately followed by the [DONE] sentinel; neither occurs
\* anywhere else, nothing follows the sentinel, every chunk before the finish
\* chunk has finish_reason null; an open stream holds neither; and a stream
\* closed after zero chunks holds exactly the terminal pair.
C4_TerminalPair ==
    LET n == Len(sse)
    IN /\ pc = "closed" =>
            /\ n >= 2
            /\ IsFinishChunk(sse[n - 1])
            /\ IsSentinel(sse[n])
       /\ \A i \in 1..n :
            (pc # "closed" \/ i < n - 1) =>
                /\ ~IsSentinel(sse[i])
                /\ sse[i].finish_reason = Null
       /\ (pc = "closed" /\ frags = <<>>) => n = 2

\* A stream closed without any chunk having been written.
C4_Witness == pc = "closed" /\ frags = <<>> /\ fetchCount = 1

----------------------------------------------------------------------------
(* C5 *)

IsErrorText(f) == f.type = "text" /\ f.origin = "error"
IsNotification(f) ==
    /\ f.type = "text"
    /\ f.data = createSwitchNotification(modelId, getFallbackModel(modelId))

\* C5: when the first stream request is answered 401 and its replay 200,
\* exactly one clearTokenCache, one initializeAuth and two fetches (the
\* original and one replay of the same model) were made, and the chunks the
\* caller got from performStreamRequest are upstream-derived only: no error
\* text and no switch notification, as long as the 200 response itself does
\* not fail.
C5_Auth401ThenOk ==
    statuses = <<401, 200>> =>
        /\ clearCount = 1 /\ authCount = 1 /\ fetchCount = 2
        /\ isRetry /\ requestModel = modelId
        /\ errorMessage = <<>> =>
              \A i \in DOMAIN frags :
                  /\ ~IsErrorText(frags[i])
                  /\ ~IsNotification(frags[i])
                  /\ frags[i].origin \in {"synthetic", "upstream"}

\* The replay's response was streamed to its end and produced text.
C5_Witness ==
    /\ statuses = <<401, 200>> /\ pc = "closed" /\ errorMessage = <<>>
    /\ Count(frags, IsUpstreamText) >= 1

----------------------------------------------------------------------------
(* C6 *)

FallbackAvailable == getFallbackModel(modelId) # NoModel /\ autoSwitchEnabled

\* C6: when the first attempt is answered 429 or 503, a fallback is mapped
\* for the requested model and auto switching is enabled, the stream holds
\* exactly one switch-notification text chunk and every chunk derived from
\* the fallback model's response comes after it.
C6_OneNotificationFirst ==
    (Len(statuses) >= 1 /\ isRateLimitStatus(statuses[1]) /\ FallbackAvailable) =>
        /\ Count(frags, IsNotification) = 1
        /\ \A i \in DOMAIN frags :
              frags[i].origin = "upstream" =>
                  \E k \in 1..(i - 1) : IsNotification(frags[k])

\* A fallback whose response was streamed to its end, after a synthetic
\* thinking phase.
C6_Witness ==
    /\ statuses = <<503, 200>> /\ pc = "closed" /\ FallbackAvailable
    /\ Count(frags, IsUpstreamText) >= 1
    /\ frags[1].origin = "synthetic"

----------------------------------------------------------------------------
(* C7 *)

\* C7 as stated: every outgoing chunk produced from an attempt's response,
\* and the finish chunk, carries the model that generated the content: the
\* requested model without fallback, the fallback model after a switch.
C7_Original ==
    \A i \in DOMAIN sse :
        (/\ IsChunk(sse[i])
         /\ \/ IsFinishChunk(sse[i]) /\ errorMessage = <<>>
            \/ \E k \in 1..(i - 1) :
                  /\ HasContent(sse[k])
                  /\ sse[k].delta.content =
                        createSwitchNotification(modelId, getFallbackModel(modelId)))
        => sse[i].model = requestModel

----------------------------------------------------------------------------
(* C8 *)

\* C8: however the body is cut into reads, after every read the parser is in
\* the state a single read of everything delivered so far leaves it in
\* (same kept line, same event buffer, same events yielded, in the same
\* order), and at the end of the body the events yielded are those of one
\* unsplit read.
C8_ReadBoundaryIndependent ==
    IF sseDone
    THEN SSECurrent = ReadDone(ReadValue(SSEStart, stream))
    ELSE SSECurrent = ReadValue(SSEStart, SubSeq(stream, 1, pos))

\* A read ended inside the "data: " prefix of a later line, after an event
\* had been yielded.
C8_Witness ==
    /\ ~sseDone
    /\ buffer = <<"d", "a", "t">>
    /\ yielded # <<>>
    /\ objectBuffer # <<>>

----------------------------------------------------------------------------
(* C9 *)

WellFormed(frame) == frame # <<>> /\ JsonParse(FlattenSeq(frame)).ok
Malformed(frame) == frame # <<>> /\ ~JsonParse(FlattenSeq(frame)).ok

\* The parsed value of every well-formed frame, in order
RECURSIVE ExpectedEvents(_)
ExpectedEvents(frames) ==
    IF frames = <<>> THEN <<>>
    ELSE (IF WellFormed(Head(frames))
          THEN <<JsonParse(FlattenSeq(Head(frames))).value>> ELSE <<>>)
         \o ExpectedEvents(Tail(frames))

\* C9: for a body made of frames, whenever the reader stands at the end of
\* the k-th frame the event buffer is empty and the events yielded are
\* exactly the values of the well-formed frames among the first k, in order
\* (a malformed frame yields nothing and leaves nothing behind); at the end
\* of the body the events are those of all well-formed frames.
C9_MalformedFrameSkipped ==
    /\ \A k \in 0..Len(bodyFrames) :
          pos = Len(RenderFrames(SubSeq(bodyFrames, 1, k))) =>
              /\ objectBuffer = <<>>
              /\ yielded = ExpectedEvents(SubSeq(bodyFrames, 1, k))
    /\ sseDone => yielded = ExpectedEvents(bodyFrames)

\* A malformed frame between two well-formed frames, read to the end.
C9_Witness ==
    /\ sseDone /\ sawParseError
    /\ Len(bodyFrames) = 3
    /\ WellFormed(bodyFrames[1]) /\ Malformed(bodyFrames[2]) /\ WellFormed(bodyFrames[3])
    /\ Len(yielded) = 2

----------------------------------------------------------------------------
(* C10 *)

IsDelimiter(f) == IsOpenDelimiter(f) \/ IsCloseDelimiter(f)
NoTags(text) == ~Includes(text, OpenTag) /\ ~Includes(text, CloseTag)

\* The part text "<think>" a "</think>" b
LegacyTagged(a, b) == <<OpenTag>> \o a \o <<CloseTag>> \o b

\* The chunk type thinking text is delivered in
ThinkingType(rtac) == IF rtac THEN "thinking_content" ELSE "real_thinking"

\* C10: a part that is not marked as a thought and whose text is
\* "<think>" a "</think>" b, with a and b free of tag markers and b not blank
\* (in particular "<think>A</think>B"), is classified, in both delivery
\* modes and whatever the thinking flags, into exactly two fragments besides
\* delimiters: a thinking fragment carrying a, then a text fragment carrying
\* b trimmed.
C10_LegacyTaggedSplit ==
    LET text == partIn.part.text
        c == IndexFrom(text, CloseTag, 2)
        a == SubSeq(text, 2, c - 1)
        b == SubSeq(text, c + 1, Len(text))
    IN (/\ partOut # <<>>
        /\ ~partIn.part.thought
        /\ text # <<>> /\ text[1] = OpenTag /\ c # 0
        /\ text = LegacyTagged(a, b)
        /\ NoTags(a) /\ NoTags(b) /\ Trim(b) # <<>>)
       => LET body == SelectSeq(partOut[1].frags, LAMBDA f : ~IsDelimiter(f))
          IN /\ Len(body) = 2
             /\ body[1].type = ThinkingType(partIn.realThinkingAsContent)
             /\ body[1].data = a
             /\ body[2].type = "text"
             /\ body[2].data = Trim(b)

\* "<think>A</think>B" classified as content with the section not yet open:
\* opening delimiter, A, closing delimiter, B.
C10_Witness ==
    /\ partOut # <<>>
    /\ partIn.part = [thought |-> FALSE, text |-> <<OpenTag, "A", CloseTag, "B">>]
    /\ partIn.realThinkingAsContent /\ ~partIn.started
    /\ Len(partOut[1].frags) = 4
    /\ partOut[1].frags[2].data = <<"A">>
    /\ partOut[1].frags[4].data = <<"B">>

----------------------------------------------------------------------------
(* C11 *)

\* C11: when streamContent throws - during authentication, on a fatal
\* status, on a missing body or while the body is read, before or after
\* chunks were written - the closed stream holds exactly one error text
\* chunk, its data is "Error: " followed by the message thrown, it is the
\* last chunk written, and the frames end with its content chunk, the finish
\* chunk and the [DONE] sentinel; a stream that did not throw holds no error
\* text, and none is written before the stream is closed.
C11_InlineErrorThenClose ==
    LET n == Len(sse)
        m == Len(frags)
    IN /\ (pc = "closed" /\ errorMessage # <<>>) =>
            /\ Count(frags, IsErrorText) = 1
            /\ m >= 1 /\ IsErrorText(frags[m])
            /\ frags[m].data = <<"Error: ">> \o errorMessage
            /\ n >= 3
            /\ HasContent(sse[n - 2])
            /\ sse[n - 2].delta.content = <<"Error: ">> \o errorMessage
            /\ IsFinishChunk(sse[n - 1])
            /\ IsSentinel(sse[n])
       /\ (pc # "closed" \/ errorMessage = <<>>) => Count(frags, IsErrorText) = 0

\* The body of a 200 response failed after an upstream text had been sent.
C11_Witness ==
    /\ pc = "closed" /\ errorMessage = <<"network error">>
    /\ Count(frags, IsUpstreamText) >= 1
    /\ Count(frags, IsErrorText) = 1

----------------------------------------------------------------------------
(* C12 *)

LastStatus == statuses[Len(statuses)]

\* C12 as stated: a non-streaming chat completion that is answered with an
\* error after validation carries the status of its failure class: 401 when
\* authentication failed (the auth test, a re-authentication, or an upstream
\* 401 that survived the replay), the upstream 429 or 503 when the request
\* failed on a rate limit, 500 otherwise.
C12_Original ==
    (pc = "responded" /\ ~bodyStream /\ response[1].status \notin {200, 400}) =>
        response[1].status =
            IF isRateLimitError(errorMessage) THEN LastStatus
            ELSE IF \/ completionModel = NoModel
                    \/ errorMessage = <<"Authentication failed">>
                    \/ errorMessage = <<"Stream request failed: ", "401">>
                 THEN 401
            ELSE 500

----------------------------------------------------------------------------
(* C13 *)

----------------------------------------------------------------------------
(* C15 *)

\* The data of the text chunks of a sequence, concatenated in order
RECURSIVE TextData(_)
TextData(cs) ==
    IF cs = <<>> THEN <<>>
    ELSE (IF Head(cs).type = "text" THEN Head(cs).data ELSE <<>>)
         \o TextData(Tail(cs))

\* What handleNonStreamingFallback puts in front of the fallback's text
FallbackPrefix ==
    IF inFallback
    THEN createSwitchNotification(completionModel, getFallbackModel(completionModel))
    ELSE <<>>

\* Tokens that only thinking carries: the delimiter tags, the text of
\* upstream thoughts and the synthetic narrative
ThinkingOnlyTokens ==
    {"<thinking>", "</thinking>", "A"}
    \cup {ReasoningTexts[i][1] : i \in DOMAIN ReasoningTexts}

\* C15: while getCompletion collects, and in the 200 response, content is
\* the concatenation, in order, of the data of the text chunks yielded by
\* the streamContent call that is answered (the switch notification among
\* them when the switch happened inside the stream), preceded by the switch
\* notification when handleNonStreamingFallback made the call; no token of
\* a thinking delimiter, of a thought or of the synthetic narrative is in
\* it.
C15_ContentIsTextOnly ==
    (completionModel # NoModel) =>
        /\ content = FallbackPrefix \o TextData(frags)
        /\ \A i \in DOMAIN content : content[i] \notin ThinkingOnlyTokens
        /\ (pc = "responded" /\ response[1].status = 200) =>
                response[1].content = content

\* A completion whose stream switched models, held a synthetic thinking
\* section as content and an upstream text.
C15_Witness ==
    /\ pc = "responded" /\ response[1].status = 200
    /\ Count(frags, IsNotification) = 1
    /\ OpenCount = 1 /\ CloseCount = 1
    /\ response[1].content =
          createSwitchNotification(GeminiPro, GeminiFlash) \o <<"B">>

----------------------------------------------------------------------------
(* C14 *)

\* C14: every chunk of a stream, the finish chunk included, carries the id
\* and the created value the transformer was created with, so any two
\* chunks of the stream agree on both; and once the transformer exists no
\* step changes either value.
C14_StableIdAndCreated ==
    /\ [](\A i \in DOMAIN sse :
            IsChunk(sse[i]) =>
                /\ sse[i].id = chatID /\ sse[i].created = creationTime
                /\ \A j \in DOMAIN sse :
                      IsChunk(sse[j]) =>
                          /\ sse[j].id = sse[i].id
                          /\ sse[j].created = sse[i].created)
    /\ [][pc # "route" => (chatID' = chatID /\ creationTime' = creationTime)]_vars

\* A closed stream with reasoning, content and finish chunks.
C14_Witness ==
    /\ pc = "closed" /\ chatID = "chatcmpl-b"
    /\ Count(sse, HasReasoning) >= 1 /\ Count(sse, HasContent) >= 2
    /\ IsFinishChunk(sse[Len(sse) - 1])
    /\ sse[1].id = sse[Len(sse) - 1].id

----------------------------------------------------------------------------
(* C16 *)

\* What the last initializeAuth call read from the KV store
CachedSeen == IF lastAuth[1].kvGetOk THEN lastAuth[1].kvBefore ELSE <<>>

CachedValid ==
    CachedSeen # <<>> /\ CachedSeen[1].expiry_date - now > tokenBufferTime
EnvValid == envCreds[1].expiry_date - now > tokenBufferTime

\* The selection of the token, common to the claim as stated and as amended
C16_Selection ==
    /\ CachedValid =>
            /\ accessToken = CachedSeen[1].access_token
            /\ refreshCount = 0 /\ kvToken = lastAuth[1].kvBefore
            /\ lastAuth[1].error = <<>>
    /\ (~CachedValid /\ EnvValid) =>
            /\ accessToken = envCreds[1].access_token
            /\ refreshCount = 0 /\ lastAuth[1].error = <<>>
    /\ (~CachedValid /\ ~EnvValid) =>
            /\ refreshCount = 1
            /\ lastAuth[1].refresh.ok =>
                  accessToken = RefreshedToken /\ lastAuth[1].error = <<>>
            /\ ~lastAuth[1].refresh.ok =>
                  accessToken = Null /\ lastAuth[1].error # <<>>
    /\ lastAuth[1].error = <<>> => accessToken # Null

\* The token in use and its expiry date, after a call that did not use the
\* cache
UsedTokenData ==
    IF EnvValid THEN envCreds[1]
    ELSE TokenData(RefreshedToken, now + lastAuth[1].refresh.expires_in * 1000)

----------------------------------------------------------------------------
(* C17 *)

\* What a native route answers for the outcome of a fetch
MirroredStatus(status) == IF status \in 200..299 THEN 200 ELSE status

----------------------------------------------------------------------------
(* C18 *)

\* C18 as stated: for a thinking model the config sent upstream has
\* thinking budget 0 when real thinking is disabled by the environment, and
\* thinking budget -1 when it is enabled and no budget is requested.
C18_Original ==
    (configOut # <<>> /\ IsThinkingModel(configIn.modelId)) =>
        /\ configOut[1].thinkingConfig # <<>>
        /\ ~configIn.isRealThinkingEnabled =>
              configOut[1].thinkingConfig[1].thinkingBudget = 0
        /\ (configIn.isRealThinkingEnabled /\ configIn.options.thinkingBudget = <<>>) =>
              configOut[1].thinkingConfig[1].thinkingBudget = -1

----------------------------------------------------------------------------
(* C19 *)

\* Delimiters among the first n chunks yielded
OpensBefore(n) == Count(SubSeq(frags, 1, n), IsOpenDelimiter)
ClosesBefore(n) == Count(SubSeq(frags, 1, n), IsCloseDelimiter)

\* C19 as stated: whenever a text chunk derived from an upstream part (a
\* plain part or the remainder of a legacy-tagged part) is yielded after an
\* opening delimiter, the closing delimiter was yielded before it.
C19_Original ==
    \A i \in DOMAIN frags :
        (IsUpstreamText(frags[i]) /\ OpensBefore(i - 1) >= 1)
            => ClosesBefore(i - 1) >= 1

----------------------------------------------------------------------------
(* C20 *)

\* C20 as stated: the authentication replay and the rate-limit fallback are
\* accounted separately.  A 429/503 answered to the replay that followed a
\* 401 switches to the fallback model (one notification, the next request
\* names the fallback) when a fallback is mapped and enabled; a 401 answered
\* to the fallback attempt clears the cache and re-authenticates once.
C20_Original ==
    /\ (/\ Len(statuses) >= 2 /\ statuses[1] = 401
        /\ isRateLimitStatus(statuses[2]) /\ FallbackAvailable) =>
            /\ Count(frags, IsNotification) = 1
            /\ requestModel = getFallbackModel(modelId)
    /\ (/\ Len(statuses) >= 2 /\ isRateLimitStatus(statuses[1])
        /\ FallbackAvailable /\ statuses[2] = 401) =>
            /\ clearCount = 1 /\ authCount = 1

----------------------------------------------------------------------------
(* C21 *)

\* C21 as stated: in a getCompletion call for a model that has a fallback,
\* once a request naming the fallback model has been answered 429 or 503 no
\* further upstream request is issued, so that request is the last one.
C21_Original ==
    (completionModel # NoModel /\ getFallbackModel(completionModel) # NoModel) =>
        \A i \in DOMAIN statuses :
            (/\ fetchModels[i] = getFallbackModel(completionModel)
             /\ isRateLimitStatus(statuses[i]))
                => fetchCount = i

----------------------------------------------------------------------------
(* C22 *)

\* The streamContent call for the requested model - the call the streaming
\* path makes (openai.ts 167) - threw: getCompletion either is left with its
\* error or went on to handleNonStreamingFallback.
RequestedModelStreamThrew == inFallback \/ errorMessage # <<>>

\* C22 as stated: on the same upstream answers getCompletion succeeds
\* exactly when the streamContent call of the streaming path completes
\* without error, and then its content is the concatenation of the text
\* chunks that call yielded.
C22_Original ==
    (completionModel # NoModel /\ pc = "responded") =>
        /\ response[1].status = 200 <=> ~RequestedModelStreamThrew
        /\ response[1].status = 200 => response[1].content = TextData(frags)

----------------------------------------------------------------------------
(* C23 *)

IsFromRequest(f) == f.origin \in {"upstream", "notification"}

\* C23: when the first stream request and its replay are both answered 401,
\* the call fails after exactly two upstream requests, both naming the
\* requested model, one clearTokenCache and one re-authentication; no third
\* request follows; neither request contributes a chunk (no upstream-derived
\* chunk, no switch notification); the error thrown names status 401, and
\* on the streaming route it reaches the caller as the final error text.
C23_Double401Fatal ==
    (Len(statuses) >= 2 /\ statuses[1] = 401 /\ statuses[2] = 401) =>
        /\ fetchCount = 2 /\ statuses = <<401, 401>>
        /\ fetchModels = <<modelId, modelId>>
        /\ clearCount = 1 /\ authCount = 1
        /\ pc \in {"failed", "closed"}
        /\ errorMessage = <<"Stream request failed: ", "401">>
        /\ Count(frags, IsFromRequest) = 0
        /\ pc = "closed" =>
              /\ IsErrorText(frags[Len(frags)])
              /\ frags[Len(frags)].data =
                    <<"Error: ", "Stream request failed: ", "401">>

\* Both requests were answered 401 after a synthetic thinking phase, and the
\* stream was closed with the error text.
C23_Witness ==
    /\ statuses = <<401, 401>> /\ pc = "closed"
    /\ frags # <<>> /\ frags[1].origin = "synthetic"
    /\ IsErrorText(frags[Len(frags)])

----------------------------------------------------------------------------
(* C24 *)

\* The status answered to the request a step has just made
NewStatus == statuses'[Len(statuses')]

\* The request a step makes is answered with a status that is fatal at
\* once: not 200, not a 401 to the first attempt, and not a 429/503 for
\* which a fallback is mapped and enabled.
FatalAnswer ==
    /\ fetchCount' = fetchCount + 1
    /\ NewStatus # 200
    /\ ~(NewStatus = 401 /\ fetchCount = 0)
    /\ (NewStatus \in {429, 503} =>
            (getFallbackModel(modelId) = NoModel \/ ~autoSwitchEnabled))

\* C24: a step whose request gets such an answer makes that one request
\* only, fails the call at once with an error that embeds the status, and
\* neither clears the token cache, re-authenticates nor yields a chunk (in
\* particular no switch notification); and a failed call makes no further
\* request, clear or re-authentication.
C24_FatalImmediately ==
    /\ [][FatalAnswer =>
            /\ pc' = "failed"
            /\ errorMessage' = <<"Stream request failed: ", ToString(NewStatus)>>
            /\ clearCount' = clearCount /\ authCount' = authCount
            /\ frags' = frags /\ sse' = sse
            /\ requestModel' = requestModel]_vars
    /\ [][pc = "failed" =>
            /\ fetchCount' = fetchCount
            /\ clearCount' = clearCount /\ authCount' = authCount
            /\ Count(frags', IsNotification) = Count(frags, IsNotification)]_vars

\* A 503 was answered to the first request for a model without fallback and
\* failed the call after that one request.
C24_Witness ==
    /\ statuses = <<503>> /\ modelId = GeminiFlash /\ autoSwitchEnabled
    /\ pc = "failed" /\ fetchCount = 1 /\ clearCount = 0
    /\ errorMessage = <<"Stream request failed: ", "503">>

----------------------------------------------------------------------------
(* C25 *)

\* The request re-authenticated after its 401 and is about to be replayed.
ReadyToReplay(r) == authPc[r] = "authenticated" /\ rejectedToken[r] # Null

\* C25 as stated: a request that was answered 401 and has since run
\* clearTokenCache and initializeAuth holds a token obtained from the
\* refresh endpoint, different from the token that was rejected.
C25_Original ==
    \A r \in Requests :
        ReadyToReplay(r) =>
            /\ lastAuth[r][1].source = "refresh"
            /\ accessToken[r] # rejectedToken[r]

----------------------------------------------------------------------------
(* C26 *)

\* The request completed initializeAuth without error.
Authenticated(r) == authPc[r] \in {"authenticated", "clearTokenCache", "answered"}

\* C26: under every interleaving of the requests' steps and of the clock,
\* a request that completed initializeAuth holds a non-null token, the one
\* it selected, and that token either came from a refresh made by this call
\* or had more than the buffer time left at the moment it was selected; and
\* the cache is empty or holds an entry that had a positive remaining
\* lifetime when it was written.
C26_RaceTolerant ==
    /\ \A r \in Requests :
          Authenticated(r) =>
              /\ accessToken[r] # Null
              /\ lastAuth[r] # <<>>
              /\ accessToken[r] = lastAuth[r][1].access_token
              /\ \/ lastAuth[r][1].source = "refresh"
                 \/ lastAuth[r][1].expiry_date - lastAuth[r][1].time > tokenBufferTime
    /\ kvToken # <<>> => kvToken[1].expiry_date - kvToken[1].cached_at > 0
    /\ \A r \in Requests :
          pendingPut[r] # <<>> =>
              pendingPut[r][1].expiry_date - pendingPut[r][1].cached_at > 0

\* One request cleared the cache after its 401 while the other selected the
\* environment's token and wrote it back; both completed initializeAuth.
C26_Witness ==
    /\ authPc["r1"] = "authenticated" /\ rejectedToken["r1"] # Null
    /\ authPc["r2"] = "authenticated" /\ rejectedToken["r2"] = Null
    /\ lastAuth["r1"][1].source = "refresh"
    /\ lastAuth["r2"][1].source = "env"
    /\ kvToken # <<>> /\ kvToken[1].access_token = EnvToken
    /\ now > Now0

----------------------------------------------------------------------------
(* C27 *)

\* The events of a body whose last line is terminated by a newline
EventsIfTerminated(body) == ReadDone(ReadValue(SSEStart, body \o <<"\n">>)).yielded

\* C27 as stated: at the end of the body the data lines received since the
\* last blank line are parsed and yielded as one final event whether or not
\* the last line ended with a newline: the events are those of the same
\* body with its last line terminated.
C27_Original == sseDone => yielded = EventsIfTerminated(stream)

----------------------------------------------------------------------------
(* C28 *)

Payload_(type, data) == [type |-> type, data |-> data]

\* What a part contributes besides delimiters, whatever the thinking flags:
\* a thought its text as thinking, a plain text part its text, the legacy
\* tagged part of the alphabet its inner text as thinking and then its rest.
PartPayloads(part, rtac) ==
    IF part.thought THEN <<Payload_(ThinkingType(rtac), part.text)>>
    ELSE IF Includes(part.text, OpenTag)
    THEN <<Payload_(ThinkingType(rtac), ThinkMatch(part.text).inner),
           Payload_("text", Trim(StripThink(part.text)))>>
    ELSE <<Payload_("text", part.text)>>

\* The payloads of one event: its parts in array order, then its usage
EventPayloads(event, rtac) ==
    FlattenSeq([i \in DOMAIN event.parts |-> PartPayloads(event.parts[i], rtac)])
    \o (IF event.usage = <<>> THEN <<>>
        ELSE <<Payload_("usage", event.usage[1])>>)

\* The payloads of the events in order of arrival
ExpectedPayloads ==
    FlattenSeq([i \in DOMAIN events |-> EventPayloads(events[i], realThinkingAsContent)])

SameUsage(data, snapshot) ==
    /\ data.inputTokens = snapshot.promptTokenCount
    /\ data.outputTokens = snapshot.candidatesTokenCount

\* The chunk f carries the payload e.
CarriesPayload(f, e) ==
    /\ f.type = e.type
    /\ IF e.type = "usage" THEN SameUsage(f.data, e.data) ELSE f.data = e.data

\* What a chunk makes the transformer emit: nothing for a usage chunk
IsContentFrag(f) == f.type # "usage"
FragText(f) == IF f.type = "reasoning" THEN f.data.reasoning ELSE f.data
FrameText(c) == IF HasContent(c) THEN c.delta.content ELSE c.delta.reasoning

\* C28: at every moment of a response, (a) the chunks derived from the
\* upstream response, delimiters aside, are exactly the payloads of the
\* events received so far: events in order of arrival, the parts of an
\* event in array order, its usage snapshot after its parts; every chunk
\* that is not derived from the response (synthetic thinking, switch
\* notification) precedes them and the error text follows them; (b) the
\* frames already enqueued are, in the same order, one frame per chunk
\* yielded so far that bears content, carrying its text on the content or
\* reasoning channel - nothing is held back and nothing is reordered.
C28_OrderPreserved ==
    LET up == SelectSeq(frags, LAMBDA f : f.origin = "upstream" /\ ~IsDelimiter(f))
        expected == ExpectedPayloads
        bearing == SelectSeq(frags, IsContentFrag)
        out == SelectSeq(sse, IsContentBearing)
    IN /\ Len(up) = Len(expected)
       /\ \A i \in DOMAIN up : CarriesPayload(up[i], expected[i])
       /\ \A i, j \in DOMAIN frags :
             (i < j /\ frags[i].origin = "upstream") =>
                 frags[j].origin \in {"upstream", "error"}
       /\ Len(out) = Len(bearing)
       /\ \A i \in DOMAIN out :
             /\ FrameText(out[i]) = FragText(bearing[i])
             /\ HasContent(out[i]) <=>
                   bearing[i].type \in {"text", "thinking_content"}

\* Two events were received after a synthetic phase and a model switch: the
\* first with a thought and a usage snapshot, the second with a
\* legacy-tagged part; the stream was closed.
C28_Witness ==
    /\ pc = "closed" /\ Len(events) = 2
    /\ events[1].parts = <<ThoughtPart>> /\ events[1].usage # <<>>
    /\ events[2].parts = <<TaggedPart>>
    /\ frags[1].origin = "synthetic"
    /\ Count(frags, IsNotification) = 1

----------------------------------------------------------------------------
(* C29 *)

\* C29: once a write to the caller has failed, the reader that parseSSEStream
\* holds on the upstream body has been cancelled or its lock released: no
\* read of the upstream body is left pending behind an aborted response.
\* The code never cancels the reader and never releases its lock.
C29_Original == pc = "aborted" => reader # "locked"

----------------------------------------------------------------------------
(* C30 *)

\* C30: with realThinkingAsContent false, a part that carries thought text
\* (thought === true with text, or text holding a <think> tag) is answered
\* on the reasoning channel only: a thought part yields exactly one
\* real_thinking fragment with its text, a tagged part yields the matched
\* inner text as a real_thinking fragment first, no fragment of either is a
\* thinking_content fragment (so no delimiter is emitted), and
\* hasStartedThinking and hasClosedThinking keep their values, whatever
\* they and needsThinkingClose were.
IsThoughtPart(part) == part.thought = TRUE /\ Truthy(part.text)

IsTaggedPart(part) ==
    ~IsThoughtPart(part) /\ Truthy(part.text) /\ Includes(part.text, OpenTag)

C30_MetadataBypassesFlags ==
    (partOut # <<>> /\ ~partIn.realThinkingAsContent
     /\ (IsThoughtPart(partIn.part) \/ IsTaggedPart(partIn.part))) =>
        LET out == partOut[1]
            part == partIn.part
        IN /\ out.started = partIn.started
           /\ out.closed = partIn.closed
           /\ \A i \in 1..Len(out.frags) : out.frags[i].type # "thinking_content"
           /\ IsThoughtPart(part) =>
                  /\ Len(out.frags) = 1
                  /\ out.frags[1].type = "real_thinking"
                  /\ out.frags[1].data = part.text
           /\ (IsTaggedPart(part) /\ ThinkMatch(part.text).found) =>
                  /\ out.frags # <<>>
                  /\ out.frags[1].type = "real_thinking"
                  /\ out.frags[1].data = ThinkMatch(part.text).inner
                  /\ \A i \in 2..Len(out.frags) : out.frags[i].type = "text"

\* A thought part processed while a synthetic section is open and unclosed:
\* the state in which content mode would have emitted a delimiter.
C30_Witness ==
    /\ partOut # <<>>
    /\ ~partIn.realThinkingAsContent
    /\ partIn.part = [thought |-> TRUE, text |-> <<"A">>]
    /\ partIn.needsThinkingClose /\ ~partIn.started /\ ~partIn.closed
    /\ partOut[1].frags = <<[type |-> "real_thinking", data |-> <<"A">>,
                             origin |-> "upstream"]>>
    /\ ~partOut[1].started /\ ~partOut[1].closed

----------------------------------------------------------------------------
(* C31 *)

\* C31: when the upstream body ends normally after an opening delimiter was
\* yielded and no text fragment was derived from the response, no closing
\* delimiter has been yielded and none is sent to the caller, and the
\* caller's stream still ends with the finish chunk followed by the [DONE]
\* sentinel.
C31_OpenSectionLeftOpen ==
    (/\ pc = "closed" /\ reader = "done"
     /\ \E i \in DOMAIN frags : IsOpenDelimiter(frags[i])
     /\ \A i \in DOMAIN frags : ~IsUpstreamText(frags[i])) =>
        LET n == Len(sse)
        IN /\ \A i \in DOMAIN frags : ~IsCloseDelimiter(frags[i])
           /\ \A i \in 1..n :
                 HasContent(sse[i]) => sse[i].delta.content # CloseDelimiter
           /\ n >= 3
           /\ IsFinishChunk(sse[n - 1])
           /\ IsSentinel(sse[n])

\* In content mode the response held one thought and nothing else, and the
\* body ended: the section opened for the thought is still open.
C31_Witness ==
    /\ pc = "closed" /\ reader = "done"
    /\ realThinkingAsContent
    /\ Len(events) = 1 /\ events[1].parts = <<ThoughtPart>>
    /\ Len(frags) >= 2 /\ IsOpenDelimiter(frags[1])
    /\ hasStartedThinking /\ ~hasClosedThinking
    /\ IsSentinel(sse[Len(sse)])

----------------------------------------------------------------------------
(* C32 *)

\* The text holds the opening tag and no tag pair
UnclosedTag(text) == Includes(text, OpenTag) /\ ~ThinkMatch(text).found

\* C32 as stated: a part that is not a thought and whose text holds
\* "<think>" without a closing tag after it yields exactly one text
\* fragment, whose data is the part's text as it was received, yields no
\* fragment carrying thinking text and no opening delimiter.  The code
\* trims the text before yielding it.
C32_Original ==
    (partOut # <<>> /\ ~partIn.part.thought /\ UnclosedTag(partIn.part.text)) =>
        LET out == partOut[1].frags
            texts == SelectSeq(out, LAMBDA f : f.type = "text")
        IN /\ Len(texts) = 1
           /\ texts[1].data = partIn.part.text
           /\ \A i \in DOMAIN out :
                 /\ out[i].type # "real_thinking"
                 /\ out[i].type = "thinking_content" => IsCloseDelimiter(out[i])

\* data is text without its leading and trailing whitespace
IsTrimOf(data, text) ==
    \E i, j \in 1..Len(text) :
        /\ data = SubSeq(text, i, j)
        /\ text[i] \notin Whitespace /\ text[j] \notin Whitespace
        /\ \A k \in 1..Len(text) : (k < i \/ k > j) => text[k] \in Whitespace

\* C32, amended: a part that is not a thought and whose text holds "<think>"
\* without a closing tag after it yields exactly one text fragment, whose
\* data is the part's text, tag marker included, with its leading and
\* trailing whitespace removed; it yields no fragment carrying thinking
\* text and no opening delimiter.  The text fragment is the last one; the
\* only fragment that can precede it is the closing delimiter, yielded in
\* content mode exactly when a section was opened by the response and is
\* not closed yet.
C32_UnclosedTagTrimmedText ==
    (partOut # <<>> /\ ~partIn.part.thought /\ UnclosedTag(partIn.part.text)) =>
        LET out == partOut[1].frags
            n == Len(out)
            closing == /\ partIn.realThinkingAsContent
                       /\ partIn.started /\ ~partIn.closed
        IN /\ n = (IF closing THEN 2 ELSE 1)
           /\ out[n].type = "text"
           /\ IsTrimOf(out[n].data, partIn.part.text)
           /\ closing => IsCloseDelimiter(out[1])
           /\ partOut[1].started = partIn.started
           /\ partOut[1].closed = (partIn.closed \/ closing)

\* An unclosed tag after a blank, classified in content mode while the
\* section opened by a thought is still open.
C32_Witness ==
    /\ partOut # <<>>
    /\ partIn.part = [thought |-> FALSE, text |-> <<" ", OpenTag, "A">>]
    /\ partIn.realThinkingAsContent /\ partIn.started /\ ~partIn.closed
    /\ Len(partOut[1].frags) = 2
    /\ partOut[1].frags[2].data = <<OpenTag, "A">>

----------------------------------------------------------------------------
(* C33 *)

\* The tokens of a text other than tag markers and whitespace
Letters(text) ==
    SelectSeq(text, LAMBDA tok : tok \notin {OpenTag, CloseTag} \cup Whitespace)

\* The texts carried by fragments of the given types, concatenated
Carried(out, types) ==
    FlattenSeq([i \in DOMAIN out |->
                   IF out[i].type \in types /\ ~IsDelimiter(out[i])
                   THEN out[i].data ELSE <<>>])

\* C33 as stated: for a part that is not a thought and whose text holds a
\* tag pair, every token of the text other than tag markers and whitespace
\* is carried by a fragment: as many times as it occurs in the text it
\* occurs in the thinking and text fragments together, also when the text
\* holds more than one pair.  The code emits the inner text of the first
\* pair only and removes every pair from the text fragment.
C33_Original ==
    (partOut # <<>> /\ ~partIn.part.thought /\ ThinkMatch(partIn.part.text).found) =>
        LET emitted == Letters(Carried(partOut[1].frags,
                                       {"thinking_content", "real_thinking", "text"}))
            given == Letters(partIn.part.text)
        IN \A tok \in TextTokens :
              Count(emitted, LAMBDA e : e = tok) = Count(given, LAMBDA e : e = tok)

----------------------------------------------------------------------------
(* C34 *)

IsSynthetic(f) == f.origin = "synthetic"

\* C34: synthetic fragments are in a stream only if the model is a thinking
\* model, ENABLE_FAKE_THINKING is "true" and includeReasoning is false, and
\* under those conditions they are there once the synthetic phase is over;
\* no stream holds both an opening delimiter of the synthetic phase and an
\* opening delimiter yielded for the upstream response.
C34_SyntheticOnlyWithoutReal ==
    LET synthetic == \E i \in DOMAIN frags : IsSynthetic(frags[i])
    IN /\ synthetic =>
            /\ IsThinkingModel(modelId) /\ isFakeThinkingEnabled
            /\ ~includeReasoning
       /\ (/\ pc = "request" \/ fetchCount > 0
           /\ IsThinkingModel(modelId) /\ isFakeThinkingEnabled
           /\ ~includeReasoning) => synthetic
       /\ \A i, j \in DOMAIN frags :
             ~(/\ IsOpenDelimiter(frags[i]) /\ IsSynthetic(frags[i])
               /\ IsOpenDelimiter(frags[j]) /\ frags[j].origin = "upstream")

\* A synthetic section was streamed as content and the response held a
\* thought: the stream holds the synthetic opening delimiter only.
C34_Witness ==
    /\ pc = "closed" /\ reader = "done"
    /\ isFakeThinkingEnabled /\ streamThinkingAsContent /\ ~includeReasoning
    /\ frags # <<>> /\ IsOpenDelimiter(frags[1]) /\ IsSynthetic(frags[1])
    /\ Len(events) = 1 /\ events[1].parts = <<ThoughtPart>>
    /\ Count(frags, IsOpenDelimiter) = 1

----------------------------------------------------------------------------
(* C35 *)

----------------------------------------------------------------------------
(* C36 *)

\* C36: the loop that cuts the narrative terminates for every narrative,
\* and at every moment the chunks pushed so far are a lossless bounded
\* partition of what was consumed: while the loop runs the chunks followed
\* by what remains are the narrative, after the loop the chunks alone are
\* the narrative; every chunk is non-empty and at most
\* THINKING_CONTENT_CHUNK_SIZE + 10 characters long.
C36_ChunksPartitionNarrative ==
    /\ [](/\ chunkPc = "loop" =>
                FlattenSeq(chunks) \o remainingText = fullReasoningText
          /\ chunkPc = "done" => FlattenSeq(chunks) = fullReasoningText
          /\ \A i \in DOMAIN chunks :
                /\ Len(chunks[i]) > 0
                /\ Len(chunks[i]) <= THINKING_CONTENT_CHUNK_SIZE + 10)
    /\ <>(chunkPc = "done")

\* A narrative cut into a chunk of the greatest length, ended by a break
\* found at the end of the look-ahead, and a rest.
C36_Witness ==
    /\ chunkPc = "done"
    /\ Len(chunks) = 2
    /\ Len(chunks[1]) = THINKING_CONTENT_CHUNK_SIZE + 10
    /\ chunks[1][Len(chunks[1])] = "."
    /\ FlattenSeq(chunks) = fullReasoningText

----------------------------------------------------------------------------
(* C37 *)

\* C37: a usage chunk written to the transformer enqueues nothing and
\* leaves firstChunk, chatID and creationTime as they were: in every step
\* the content and reasoning frames enqueued are as many as the chunks
\* written that are not usage chunks, a step that writes usage chunks only
\* changes neither the frames nor the transformer's closure, and firstChunk
\* changes only in a step that writes a text or thinking_content chunk.
\* Every content or reasoning frame carries usage null.
C37_UsageNotForwarded ==
    /\ [](\A i \in DOMAIN sse : IsContentBearing(sse[i]) => sse[i].usage = Null)
    /\ [][LET written == SubSeq(frags', Len(frags) + 1, Len(frags'))
              enqueued == SubSeq(sse', Len(sse) + 1, Len(sse'))
              forwarded == SelectSeq(written, IsContentFrag)
          IN /\ Len(SelectSeq(enqueued, IsContentBearing)) = Len(forwarded)
             /\ (written # <<>> /\ forwarded = <<>>) =>
                   /\ sse' = sse
                   /\ firstChunk' = firstChunk
                   /\ chatID' = chatID
                   /\ creationTime' = creationTime
             /\ firstChunk' # firstChunk =>
                   \E i \in DOMAIN written :
                      written[i].type \in {"text", "thinking_content"}]_vars

\* An event that holds a usage snapshot and no part was handled first: a
\* usage chunk was written, no frame was enqueued and the role is still due.
C37_Witness ==
    /\ pc = "streaming"
    /\ Len(events) = 1 /\ events[1].parts = <<>> /\ events[1].usage # <<>>
    /\ Len(frags) = 1 /\ frags[1].type = "usage"
    /\ sse = <<>> /\ firstChunk

----------------------------------------------------------------------------
(* C38 *)

\* The events of the attempt that hold a usage snapshot
Snapshots == SelectSeq(events, LAMBDA e : e.usage # <<>>)

\* C38: a non-streaming completion answered 200 reports the last usage
\* snapshot received in the attempt whose content it returns: prompt_tokens
\* and completion_tokens are the snapshot's promptTokenCount and
\* candidatesTokenCount and total_tokens is their sum; when no event of the
\* attempt held a snapshot the response has no usage.
C38_LastSnapshotReported ==
    (response # <<>> /\ response[1].status = 200 /\ ~bodyStream) =>
        LET n == Len(Snapshots)
        IN IF n = 0 THEN response[1].usage = <<>>
           ELSE LET last == Snapshots[n].usage[1]
                IN response[1].usage =
                      <<[prompt_tokens |-> last.promptTokenCount,
                         completion_tokens |-> last.candidatesTokenCount,
                         total_tokens |-> last.promptTokenCount
                                          + last.candidatesTokenCount]>>

\* Two events with different snapshots were collected; the response
\* reports the second.
C38_Witness ==
    /\ response # <<>> /\ response[1].status = 200 /\ ~bodyStream
    /\ Len(events) = 2
    /\ events[1].usage = <<[promptTokenCount |-> 1, candidatesTokenCount |-> 2]>>
    /\ events[2].usage = <<LaterUsage>>
    /\ response[1].usage[1].total_tokens = 7

----------------------------------------------------------------------------
(* C39 *)

\* C39 as stated: the switch-notification text chunk is not yielded while
\* a thinking section is open: whenever a synthetic opening delimiter was
\* yielded before the notification, a closing delimiter lies between the
\* two.  performStreamRequest yields the notification without looking at
\* needsThinkingClose.
C39_Original ==
    \A i \in DOMAIN frags :
        IsNotification(frags[i]) =>
            \A j \in 1..(i - 1) :
                (IsSynthetic(frags[j]) /\ IsOpenDelimiter(frags[j])) =>
                    \E k \in (j + 1)..(i - 1) : IsCloseDelimiter(frags[k])

====
